---- MODULE Spec2Model ----
(***************************************************************************)
(* Model of the sandboxed filesystem server of src/src/index.ts: the path  *)
(* validator (validatePath), the text-edit engine (applyFileEdits) and the *)
(* tool handlers of the CallTool request handler, over a small POSIX-like  *)
(* filesystem with symbolic links.                                         *)
(*                                                                         *)
(* Text is a sequence of one-character strings.  A path is a sequence of   *)
(* segment names; the string form of a path (what startsWith compares) is  *)
(* its rendering as a character sequence.                                  *)
(***************************************************************************)
EXTENDS Integers, Sequences, FiniteSets, TLC

VARIABLES
    fs,                 \* the filesystem: real path -> node
    allowedDirectories, \* the configured roots (index.ts:41), fixed at startup
    result,             \* the result of the last tool call
    call,               \* the last tool call: its name, arguments, the filesystem before it
    touched,            \* real locations whose content or metadata was read or changed so far
    ncalls,             \* number of tool calls handled
    process,            \* the server process: "starting", "serving" or "exit1"
    inflight            \* the edit_file calls in flight, each at a suspension point

vars == <<fs, allowedDirectories, result, call, touched, ncalls, process, inflight>>

(***************************************************************************)
(* Bounds of the model.                                                    *)
(***************************************************************************)
MaxCalls == 2
MaxText == 3
MaxLinks == 4
MaxDepth == 4
MaxLines == 3
MaxToolCalls == 1
MaxDiff == 4

(***************************************************************************)
(* Text: characters and JavaScript string primitives.                      *)
(***************************************************************************)
LF == "\n"
CR == "\r"
SP == " "
BT == "BT"
SQ == "SQ"

Max(a, b) == IF a >= b THEN a ELSE b

\* the element of a one-element set; The({e(x) : x \in {v}}) is e(v) with v
\* evaluated once
The(S) == CHOOSE x \in S : TRUE

\* /\s/ restricted to the characters of the model
IsWhitespace(c) == c \in {SP, CR, LF}

\* String.prototype.startsWith
StartsWith(s, prefix) ==
    /\ Len(prefix) <= Len(s)
    /\ SubSeq(s, 1, Len(prefix)) = prefix

\* the 0-based positions at which sub occurs in s
Occurrences(s, sub) ==
    {i \in 0..(Len(s) - Len(sub)) : SubSeq(s, i + 1, i + Len(sub)) = sub}

\* String.prototype.includes
Includes(s, sub) == Occurrences(s, sub) # {}

\* String.prototype.indexOf (of a string that occurs)
IndexOf(s, sub) == The({CHOOSE i \in occ : \A j \in occ : i <= j : occ \in {Occurrences(s, sub)}})

RECURSIVE Repeat(_, _)
\* String.prototype.repeat
Repeat(c, n) == IF n <= 0 THEN <<>> ELSE <<c>> \o Repeat(c, n - 1)

RECURSIVE normalizeLineEndings(_)
\* text.replace(/\r\n/g, '\n'): one left-to-right pass over the text
normalizeLineEndings(text) ==
    IF text = <<>> THEN <<>>
    ELSE IF Len(text) >= 2 /\ text[1] = CR /\ text[2] = LF
         THEN <<LF>> \o normalizeLineEndings(SubSeq(text, 3, Len(text)))
         ELSE <<text[1]>> \o normalizeLineEndings(Tail(text))

RECURSIVE GetSubstitution(_, _, _, _)
\* The replacement patterns String.prototype.replace expands in a string
\* replacement: $$ -> $, $& -> the match, $` -> the text before it,
\* $' -> the text after it; any other $ is literal.
GetSubstitution(matched, before, after, replacement) ==
    IF replacement = <<>> THEN <<>>
    ELSE IF replacement[1] = "$" /\ Len(replacement) >= 2
              /\ replacement[2] \in {"$", "&", BT, SQ}
         THEN LET rest == SubSeq(replacement, 3, Len(replacement))
                  out  == CASE replacement[2] = "$" -> <<"$">>
                            [] replacement[2] = "&" -> matched
                            [] replacement[2] = BT  -> before
                            [] replacement[2] = SQ  -> after
              IN  out \o GetSubstitution(matched, before, after, rest)
         ELSE <<replacement[1]>>
                  \o GetSubstitution(matched, before, after, Tail(replacement))

\* s.replace(pattern, replacement) with a string pattern that occurs in s:
\* the first occurrence only, the replacement expanded by GetSubstitution
StringReplace(s, pattern, replacement) ==
    The({ LET before == SubSeq(s, 1, i)
              after  == SubSeq(s, i + Len(pattern) + 1, Len(s))
          IN  before \o GetSubstitution(pattern, before, after, replacement) \o after
          : i \in {IndexOf(s, pattern)} })

RECURSIVE SplitLines(_)
\* text.split('\n')
SplitLines(text) ==
    IF \A k \in 1..Len(text) : text[k] # LF THEN <<text>>
    ELSE The({ <<SubSeq(text, 1, i)>> \o SplitLines(SubSeq(text, i + 2, Len(text)))
               : i \in {IndexOf(text, <<LF>>)} })

RECURSIVE JoinLines(_)
\* lines.join('\n')
JoinLines(lines) ==
    IF lines = <<>> THEN <<>>
    ELSE IF Len(lines) = 1 THEN lines[1]
    ELSE lines[1] \o <<LF>> \o JoinLines(Tail(lines))

RECURSIVE LeadingWhitespace(_)
\* line.match(/^\s*/)[0]
LeadingWhitespace(line) ==
    IF line # <<>> /\ IsWhitespace(line[1])
    THEN <<line[1]>> \o LeadingWhitespace(Tail(line))
    ELSE <<>>

\* String.prototype.trimStart
RECURSIVE TrimStart(_)
TrimStart(line) ==
    IF line # <<>> /\ IsWhitespace(line[1]) THEN TrimStart(Tail(line)) ELSE line

RECURSIVE TrimEnd(_)
TrimEnd(line) ==
    IF line # <<>> /\ IsWhitespace(line[Len(line)])
    THEN TrimEnd(SubSeq(line, 1, Len(line) - 1))
    ELSE line

\* String.prototype.trim
Trim(line) == TrimEnd(TrimStart(line))

(***************************************************************************)
(* The text-edit engine: applyFileEdits, index.ts:282-358.                 *)
(* An edit is a record [oldText, newText].                                 *)
(***************************************************************************)

\* index.ts:311-314: the window of content lines at i matches the old lines
\* when every pair of lines is equal after trim()
IsMatch(contentLines, oldLines, i) ==
    \A j \in 1..Len(oldLines) : Trim(oldLines[j]) = Trim(contentLines[i + j])

\* replacement lines that all get the indentation of the matched window
NewLinesIndented(normalizedNew, oldLines, originalIndent) ==
    LET lines == SplitLines(normalizedNew)
    IN  [j \in 1..Len(lines) |-> originalIndent \o TrimStart(lines[j])]

\* index.ts:319-329: the replacement lines, re-indented
NewLines(normalizedNew, oldLines, originalIndent) ==
    LET lines == SplitLines(normalizedNew)
    IN  [j \in 1..Len(lines) |->
            IF j = 1 THEN originalIndent \o TrimStart(lines[j])
            ELSE LET oldIndent == IF j <= Len(oldLines)
                                  THEN LeadingWhitespace(oldLines[j]) ELSE <<>>
                     newIndent == LeadingWhitespace(lines[j])
                 IN  IF oldIndent # <<>> /\ newIndent # <<>>
                     THEN originalIndent
                            \o Repeat(SP, Max(0, Len(newIndent) - Len(oldIndent)))
                            \o TrimStart(lines[j])
                     ELSE lines[j]]

\* index.ts:302-336: the whitespace-tolerant line-block match; the lowest
\* matching window is replaced (the loop breaks at the first match)
FuzzyWindows(contentLines, oldLines) ==
    {i \in 0..(Len(contentLines) - Len(oldLines)) : IsMatch(contentLines, oldLines, i)}

\* index.ts:316-334 for the lowest window i
FuzzyReplace(contentLines, oldLines, normalizedNew, i) ==
    The({ JoinLines(SubSeq(contentLines, 1, i)
                      \o NewLines(normalizedNew, oldLines, originalIndent)
                      \o SubSeq(contentLines, i + Len(oldLines) + 1, Len(contentLines)))
          : originalIndent \in {LeadingWhitespace(contentLines[i + 1])} })

\* index.ts:302-340: the second strategy on the buffer
FuzzyEdit(modifiedContent, normalizedOld, normalizedNew) ==
    The({ The({ IF windows = {}
                THEN [ok |-> FALSE, content |-> modifiedContent]
                ELSE [ok |-> TRUE,
                      content |-> FuzzyReplace(contentLines, oldLines, normalizedNew,
                                     CHOOSE w \in windows : \A v \in windows : w <= v)]
                : windows \in {FuzzyWindows(contentLines, oldLines)} })
          : oldLines \in {SplitLines(normalizedOld)},
            contentLines \in {SplitLines(modifiedContent)} })

\* index.ts:297-300: the exact strategy applies
ExactMatch(modifiedContent, edit) ==
    Includes(modifiedContent, normalizeLineEndings(edit.oldText))

\* index.ts:292-340: one iteration of the loop over the edits
ApplyEdit(modifiedContent, edit) ==
    The({ IF Includes(modifiedContent, normalizedOld)
          THEN [ok |-> TRUE,
                content |-> StringReplace(modifiedContent, normalizedOld, normalizedNew)]
          ELSE FuzzyEdit(modifiedContent, normalizedOld, normalizedNew)
          : normalizedOld \in {normalizeLineEndings(edit.oldText)},
            normalizedNew \in {normalizeLineEndings(edit.newText)} })

RECURSIVE ApplyEditsSkipping(_, _, _)
\* a loop that goes on to the next edit when one does not match
ApplyEditsSkipping(modifiedContent, edits, k) ==
    IF k > Len(edits)
    THEN [ok |-> TRUE, content |-> modifiedContent, failed |-> 0, attempted |-> Len(edits)]
    ELSE ApplyEditsSkipping(ApplyEdit(modifiedContent, edits[k]).content, edits, k + 1)

RECURSIVE ApplyEditsFrom(_, _, _)
\* index.ts:291-341: the loop; it stops at the first edit that matches by
\* neither strategy (the throw of line 339), failed = that edit's index
ApplyEditsFrom(modifiedContent, edits, k) ==
    IF k > Len(edits)
    THEN [ok |-> TRUE, content |-> modifiedContent, failed |-> 0, attempted |-> Len(edits)]
    ELSE The({ IF r.ok THEN ApplyEditsFrom(r.content, edits, k + 1)
               ELSE [ok |-> FALSE, content |-> modifiedContent, failed |-> k,
                     attempted |-> k]
               : r \in {ApplyEdit(modifiedContent, edits[k])} })

\* index.ts:288-341 on the content read from the file
ApplyEdits(fileContent, edits) ==
    ApplyEditsFrom(normalizeLineEndings(fileContent), edits, 1)

(***************************************************************************)
(* Paths.  A requested path is [abs, segs]: whether it starts with "/",    *)
(* and its segments, which may be ".", ".." and a leading "~".             *)
(***************************************************************************)

\* the characters of a segment name
NameChars(name) ==
    CASE name = "bc" -> <<"b", "c">>
      [] name = "lr" -> <<"l", "r">>
      [] name = "ld" -> <<"l", "d">>
      [] name = "li" -> <<"l", "i">>
      [] name = "build" -> <<"b", "u", "i", "l", "d">>
      [] OTHER -> <<name>>

RECURSIVE Render(_)
\* the string of an absolute normalized path: "/" for the root, else "/seg" per segment
Render(path) ==
    IF path = <<>> THEN <<"/">>
    ELSE IF Len(path) = 1 THEN <<"/">> \o NameChars(path[1])
    ELSE Render(SubSeq(path, 1, Len(path) - 1)) \o <<"/">> \o NameChars(path[Len(path)])

\* os.homedir() and process.cwd(): the environment of the process
HomeDir == <<"o">>
Cwd == <<"b">>

\* index.ts:33-38
expandHome(filepath) ==
    IF ~filepath.abs /\ filepath.segs # <<>> /\ Head(filepath.segs) = "~"
    THEN [abs |-> TRUE, segs |-> HomeDir \o Tail(filepath.segs)]
    ELSE filepath

RECURSIVE NormalizeSegs(_, _)
\* path.normalize / path.resolve on an absolute path: "." is dropped, ".."
\* removes the segment before it (and is dropped at the root)
NormalizeSegs(done, rest) ==
    IF rest = <<>> THEN done
    ELSE IF Head(rest) = "." THEN NormalizeSegs(done, Tail(rest))
    ELSE IF Head(rest) = ".."
         THEN NormalizeSegs(IF done = <<>> THEN <<>> ELSE SubSeq(done, 1, Len(done) - 1),
                            Tail(rest))
    ELSE NormalizeSegs(Append(done, Head(rest)), Tail(rest))

\* index.ts:29-31 on an absolute path
normalizePath(path) == NormalizeSegs(<<>>, path)

\* index.ts:63-66: path.resolve of the expanded path, against the working
\* directory when it is relative
AbsolutePath(requestedPath) ==
    LET expandedPath == expandHome(requestedPath)
    IN  IF expandedPath.abs
        THEN NormalizeSegs(<<>>, expandedPath.segs)
        ELSE NormalizeSegs(<<>>, Cwd \o expandedPath.segs)

\* path.dirname of an absolute normalized path
Dirname(path) == IF path = <<>> THEN <<>> ELSE SubSeq(path, 1, Len(path) - 1)

Basename(path) == path[Len(path)]

\* p is q or an ancestor of q, by segments
IsPrefix(p, q) == Len(p) <= Len(q) /\ SubSeq(q, 1, Len(p)) = p

(***************************************************************************)
(* The filesystem: a function from the real paths that exist to nodes.     *)
(* The root <<>> is always a directory.  Metadata (times, mode) is not     *)
(* kept; an operation that reads or sets it records the location in "at".  *)
(***************************************************************************)
File(content) == [kind |-> "file", content |-> content, target |-> <<>>]
Dir == [kind |-> "dir", content |-> <<>>, target |-> <<>>]
Link(target) == [kind |-> "link", content |-> <<>>, target |-> target]

Put(f, path, node) == [q \in DOMAIN f \cup {path} |-> IF q = path THEN node ELSE f[q]]
Remove(f, paths) == [q \in DOMAIN f \ paths |-> f[q]]
Children(f, path) == {q \in DOMAIN f : Len(q) = Len(path) + 1 /\ IsPrefix(path, q)}
Subtree(f, path) == {q \in DOMAIN f : IsPrefix(path, q)}

NoPath == [ok |-> FALSE, path |-> <<>>]

\* a path the system accepts: at most MaxDepth segments (longer ones fail
\* with ENAMETOOLONG)
FitsDepth(path) == Len(path) <= MaxDepth

RECURSIVE Walk(_, _, _, _)
\* symlink resolution, component by component; fails on a missing component,
\* on a file used as a directory and after MaxLinks links (ELOOP)
Walk(f, done, rest, fuel) ==
    IF rest = <<>> THEN [ok |-> TRUE, path |-> done]
    ELSE LET next == Append(done, Head(rest))
         IN  IF next \notin DOMAIN f THEN NoPath
             ELSE IF f[next].kind = "link"
                  THEN IF fuel = 0 THEN NoPath
                       ELSE Walk(f, <<>>, f[next].target \o Tail(rest), fuel - 1)
             ELSE IF f[next].kind = "file" /\ Tail(rest) # <<>> THEN NoPath
             ELSE Walk(f, next, Tail(rest), fuel)

\* fs.realpath
Realpath(f, path) == Walk(f, <<>>, path, MaxLinks)

\* the location of the entry itself: the parent resolved, the last
\* component not followed (lstat, rename, unlink, rmdir, rm)
EntryPath(f, path) ==
    IF path = <<>> THEN [ok |-> TRUE, path |-> <<>>]
    ELSE The({ IF parent.ok /\ f[parent.path].kind = "dir"
               THEN [ok |-> TRUE, path |-> Append(parent.path, Basename(path))]
               ELSE NoPath
               : parent \in {Realpath(f, Dirname(path))} })

RECURSIVE CreatePath(_, _, _)
\* the location open(path, O_CREAT) opens or creates: links in the last
\* component are followed, a dangling link creates its target
CreatePath(f, path, fuel) ==
    The({ IF ~e.ok THEN NoPath
          ELSE IF e.path \notin DOMAIN f THEN e
          ELSE IF f[e.path].kind = "link"
               THEN IF fuel = 0 THEN NoPath ELSE CreatePath(f, f[e.path].target, fuel - 1)
          ELSE e
          : e \in {EntryPath(f, path)} })

\* the outcome of a filesystem call: whether it succeeded, the filesystem
\* after it, the value it returned, the real locations it read or changed
Failed(f) == [ok |-> FALSE, fs |-> f, val |-> <<>>, at |-> {}]
Done(f, val, at) == [ok |-> TRUE, fs |-> f, val |-> val, at |-> at]

\* fs.readFile
ReadFile(f, path) ==
    The({ IF r.ok /\ f[r.path].kind = "file"
          THEN Done(f, f[r.path].content, {r.path})
          ELSE Failed(f)
          : r \in {Realpath(f, path)} })

\* fs.writeFile
WriteFile(f, path, content) ==
    The({ IF c.ok /\ FitsDepth(c.path)
              /\ (c.path \notin DOMAIN f \/ f[c.path].kind = "file")
          THEN Done(Put(f, c.path, File(content)), <<>>, {c.path})
          ELSE Failed(f)
          : c \in {CreatePath(f, path, MaxLinks)} })

\* fs.stat (follows links); the value is the node
Stat(f, path) ==
    The({ IF r.ok THEN Done(f, f[r.path], {r.path}) ELSE Failed(f)
          : r \in {Realpath(f, path)} })

\* fs.access: whether the path resolves
Access(f, path) == Realpath(f, path).ok

\* fs.utimes and fs.chmod: set metadata of the resolved node
SetMeta(f, path) ==
    The({ IF r.ok THEN Done(f, <<>>, {r.path}) ELSE Failed(f)
          : r \in {Realpath(f, path)} })

\* fs.readdir(path, {withFileTypes: true}): the entries, each with its name
\* and whether the entry itself is a directory (a link is not)
Readdir(f, path) ==
    The({ IF r.ok /\ f[r.path].kind = "dir"
          THEN Done(f, {[name |-> Basename(q), isDirectory |-> f[q].kind = "dir"] :
                          q \in Children(f, r.path)}, {r.path})
          ELSE Failed(f)
          : r \in {Realpath(f, path)} })

RECURSIVE Mkdir(_, _)
\* fs.mkdir(path, {recursive: true}): creates the missing ancestors too;
\* succeeds on an existing directory, fails on anything else in the way
Mkdir(f, path) ==
    The({ IF r.ok
          THEN IF f[r.path].kind = "dir" THEN Done(f, <<>>, {}) ELSE Failed(f)
          ELSE IF path = <<>> THEN Failed(f)
          ELSE The({ IF ~up.ok THEN Failed(f)
                     ELSE The({ IF e.ok /\ FitsDepth(e.path) /\ e.path \notin DOMAIN up.fs
                                THEN Done(Put(up.fs, e.path, Dir), <<>>,
                                          up.at \cup {e.path})
                                ELSE Failed(f)
                                : e \in {EntryPath(up.fs, path)} })
                     : up \in {Mkdir(f, Dirname(path))} })
          : r \in {Realpath(f, path)} })

\* the subtree at a moved to b
Moved(f, a, b) ==
    The({ The({ [q \in DOMAIN rest \cup {b \o SubSeq(m, Len(a) + 1, Len(m)) : m \in moved} |->
                    IF q \in DOMAIN rest THEN rest[q]
                    ELSE f[a \o SubSeq(q, Len(b) + 1, Len(q))]]
                : rest \in {Remove(f, moved \cup {b})} })
          : moved \in {Subtree(f, a)} })

\* fs.rename: moves the entry itself with its subtree; replaces an existing
\* file by a file or link, an empty directory by a directory
Rename(f, oldPath, newPath) ==
    The({ IF ~a.ok \/ ~b.ok \/ a.path \notin DOMAIN f \/ a.path = <<>> \/ b.path = <<>>
          THEN Failed(f)
          ELSE IF a.path = b.path THEN Done(f, <<>>, {a.path})
          ELSE IF IsPrefix(a.path, b.path) THEN Failed(f)
          ELSE IF \E q \in Subtree(f, a.path) :
                      ~FitsDepth(b.path \o SubSeq(q, Len(a.path) + 1, Len(q)))
               THEN Failed(f)
          ELSE IF b.path \in DOMAIN f
                    /\ \/ (f[a.path].kind = "dir") # (f[b.path].kind = "dir")
                       \/ Children(f, b.path) # {}
               THEN Failed(f)
          ELSE Done(Moved(f, a.path, b.path), <<>>, {a.path, b.path})
          : a \in {EntryPath(f, oldPath)}, b \in {EntryPath(f, newPath)} })

\* fs.copyFile: the source must resolve to a file; an existing destination
\* file is overwritten (no COPYFILE_EXCL)
CopyFile(f, src, dest) ==
    The({ IF s.ok /\ f[s.path].kind = "file" /\ d.ok /\ FitsDepth(d.path)
              /\ (d.path \notin DOMAIN f \/ f[d.path].kind = "file")
          THEN Done(Put(f, d.path, File(f[s.path].content)), <<>>, {s.path, d.path})
          ELSE Failed(f)
          : s \in {Realpath(f, src)}, d \in {CreatePath(f, dest, MaxLinks)} })

\* fs.rm(path, {recursive: true, force: true}): removes the entry itself
\* and, for a directory, everything below it; a missing path is no error
Rm(f, path) ==
    The({ IF ~e.ok \/ e.path \notin DOMAIN f THEN Done(f, <<>>, {})
          ELSE IF e.path = <<>> THEN Failed(f)
          ELSE Done(Remove(f, Subtree(f, e.path)), <<>>, Subtree(f, e.path))
          : e \in {EntryPath(f, path)} })

\* fs.rmdir: the entry must be an empty directory
Rmdir(f, path) ==
    The({ IF e.ok /\ e.path \in DOMAIN f /\ e.path # <<>> /\ f[e.path].kind = "dir"
              /\ Children(f, e.path) = {}
          THEN Done(Remove(f, {e.path}), <<>>, {e.path})
          ELSE Failed(f)
          : e \in {EntryPath(f, path)} })

\* fs.unlink: the entry must not be a directory
Unlink(f, path) ==
    The({ IF e.ok /\ e.path \in DOMAIN f /\ f[e.path].kind # "dir"
          THEN Done(Remove(f, {e.path}), <<>>, {e.path})
          ELSE Failed(f)
          : e \in {EntryPath(f, path)} })

(***************************************************************************)
(* The path validator, index.ts:62-100.                                    *)
(***************************************************************************)

\* index.ts:71, 80, 91: allowedDirectories.some(dir => p.startsWith(dir)),
\* a comparison of the two path strings
IsAllowed(dirs, path) ==
    The({ \E dir \in dirs : StartsWith(rendered, Render(dir))
          : rendered \in {Render(path)} })

Valid(path) == [ok |-> TRUE, path |-> path, kind |-> "ok"]
Invalid(kind) == [ok |-> FALSE, path |-> <<>>, kind |-> kind]

\* index.ts:85-99: the catch block of the real-path check.  It runs when
\* fs.realpath throws and also when line 82 throws, since that throw is
\* inside the try.  The throw of line 93 is inside the inner try, whose
\* catch replaces it by the error of line 97.
ParentCheck(f, dirs, absolute) ==
    The({ IF realParentPath.ok /\ IsAllowed(dirs, normalizePath(realParentPath.path))
          THEN Valid(absolute)
          ELSE Invalid("ParentMissing")
          : realParentPath \in {Realpath(f, Dirname(absolute))} })

\* index.ts:68-99 on the resolved absolute path
ValidateAbsolute(f, dirs, absolute) ==
    IF ~IsAllowed(dirs, normalizePath(absolute)) THEN Invalid("AccessDenied")
    ELSE The({ IF realPath.ok /\ IsAllowed(dirs, normalizePath(realPath.path))
               THEN Valid(realPath.path)
               ELSE ParentCheck(f, dirs, absolute)
               : realPath \in {Realpath(f, absolute)} })

\* index.ts:62-100
validatePath(f, dirs, requestedPath) ==
    The({ ValidateAbsolute(f, dirs, absolute) : absolute \in {AbsolutePath(requestedPath)} })

(***************************************************************************)
(* The tool handlers, index.ts:545-856.  Each yields the filesystem after  *)
(* the call, the result returned to the client and the real locations the  *)
(* call read or changed.                                                   *)
(***************************************************************************)

\* index.ts:849-855: an error caught at the handler boundary
\* the message handed back as an ordinary result, without the error flag
Unflagged(kind, text) == [isError |-> FALSE, kind |-> kind, text |-> text]

Error(kind, text) == [isError |-> TRUE, kind |-> kind, text |-> text]
Success(text) == [isError |-> FALSE, kind |-> "ok", text |-> text]

Outcome(f, res, at) == [fs |-> f, result |-> res, at |-> at]

\* index.ts:550-560
read_file(f, dirs, path) ==
    The({ IF ~validPath.ok THEN Outcome(f, Error(validPath.kind, <<>>), {})
          ELSE The({ IF ~content.ok THEN Outcome(f, Error("IOError", <<>>), {})
                     ELSE Outcome(f, Success(content.val), content.at)
                     : content \in {ReadFile(f, validPath.path)} })
          : validPath \in {validatePath(f, dirs, path)} })

\* index.ts:584-594
write_file(f, dirs, path, content) ==
    The({ IF ~validPath.ok THEN Outcome(f, Error(validPath.kind, <<>>), {})
          ELSE The({ IF ~written.ok THEN Outcome(f, Error("IOError", <<>>), {})
                     ELSE Outcome(written.fs, Success(<<>>), written.at)
                     : written \in {WriteFile(f, validPath.path, content)} })
          : validPath \in {validatePath(f, dirs, path)} })

\* an applyFileEdits that writes the file whatever the dryRun flag
PersistEditsAlways(f, filePath, read, modifiedContent, dryRun) ==
    The({ IF ~written.ok THEN Outcome(f, Error("IOError", <<>>), {})
          ELSE Outcome(written.fs,
                       Success([original |-> normalizeLineEndings(read.val),
                                modified |-> modifiedContent]),
                       read.at \cup written.at)
          : written \in {WriteFile(f, filePath, modifiedContent)} })

\* index.ts:343-357 once every edit has matched.  The returned diff is
\* represented by the two texts createUnifiedDiff is given (index.ts:344).
PersistEdits(f, filePath, read, modifiedContent, dryRun) ==
    The({ IF dryRun THEN Outcome(f, Success(diff), read.at)
          ELSE The({ IF ~written.ok THEN Outcome(f, Error("IOError", <<>>), {})
                     ELSE Outcome(written.fs, Success(diff), read.at \cup written.at)
                     : written \in {WriteFile(f, filePath, modifiedContent)} })
          : diff \in {[original |-> normalizeLineEndings(read.val),
                       modified |-> modifiedContent]} })

\* a fence of three backticks whatever the diff holds
threeBackticks(diff, numBackticks) == 3

RECURSIVE countBackticks(_, _)
\* index.ts:347-350: the loop, from the current numBackticks
countBackticks(diff, numBackticks) ==
    IF Includes(diff, Repeat(BT, numBackticks))
    THEN countBackticks(diff, numBackticks + 1)
    ELSE numBackticks

\* index.ts:347-351: formattedDiff, the diff between two fences followed by
\* an empty line
formatDiff(diff) ==
    The({ Repeat(BT, numBackticks) \o <<"d", "i", "f", "f", LF>> \o diff
              \o Repeat(BT, numBackticks) \o <<LF, LF>>
          : numBackticks \in {countBackticks(diff, 3)} })

\* index.ts:282-358
applyFileEdits(f, filePath, edits, dryRun) ==
    The({ IF ~read.ok THEN Outcome(f, Error("IOError", <<>>), {})
          ELSE The({ IF ~applied.ok
                     THEN Outcome(f, Error("EditNotFound", edits[applied.failed].oldText), {})
                     ELSE PersistEdits(f, filePath, read, applied.content, dryRun)
                     : applied \in {ApplyEdits(read.val, edits)} })
          : read \in {ReadFile(f, filePath)} })

\* index.ts:596-606
edit_file(f, dirs, path, edits, dryRun) ==
    The({ IF ~validPath.ok THEN Outcome(f, Error(validPath.kind, <<>>), {})
          ELSE applyFileEdits(f, validPath.path, edits, dryRun)
          : validPath \in {validatePath(f, dirs, path)} })

\* index.ts:608-618
create_directory(f, dirs, path) ==
    The({ IF ~validPath.ok THEN Outcome(f, Error(validPath.kind, <<>>), {})
          ELSE The({ IF ~made.ok THEN Outcome(f, Error("IOError", <<>>), {})
                     ELSE Outcome(made.fs, Success(<<>>), made.at)
                     : made \in {Mkdir(f, validPath.path)} })
          : validPath \in {validatePath(f, dirs, path)} })

\* index.ts:620-633
list_directory(f, dirs, path) ==
    The({ IF ~validPath.ok THEN Outcome(f, Error(validPath.kind, <<>>), {})
          ELSE The({ IF ~entries.ok THEN Outcome(f, Error("IOError", <<>>), {})
                     ELSE Outcome(f, Success(entries.val), entries.at)
                     : entries \in {Readdir(f, validPath.path)} })
          : validPath \in {validatePath(f, dirs, path)} })

\* index.ts:203-214 and 703-717
get_file_info(f, dirs, path) ==
    The({ IF ~validPath.ok THEN Outcome(f, Error(validPath.kind, <<>>), {})
          ELSE The({ IF ~stats.ok THEN Outcome(f, Error("IOError", <<>>), {})
                     ELSE Outcome(f, Success([size        |-> Len(stats.val.content),
                                              isDirectory |-> stats.val.kind = "dir",
                                              isFile      |-> stats.val.kind = "file"]),
                                  stats.at)
                     : stats \in {Stat(f, validPath.path)} })
          : validPath \in {validatePath(f, dirs, path)} })

\* the source is validated and the destination is taken as resolved
ValidateSourceOnly(f, dirs, source, destination) ==
    The({ IF ~validSourcePath.ok THEN [ok |-> FALSE, kind |-> validSourcePath.kind,
                                       source |-> <<>>, dest |-> <<>>]
          ELSE [ok |-> TRUE, kind |-> "ok", source |-> validSourcePath.path,
                dest |-> AbsolutePath(destination)]
          : validSourcePath \in {validatePath(f, dirs, source)} })

\* index.ts:683-684, 724-725, 769-770: the source is validated, then the
\* destination; the first failure is the call's error
ValidateBoth(f, dirs, source, destination) ==
    The({ IF ~validSourcePath.ok THEN [ok |-> FALSE, kind |-> validSourcePath.kind,
                                       source |-> <<>>, dest |-> <<>>]
          ELSE The({ IF ~validDestPath.ok
                     THEN [ok |-> FALSE, kind |-> validDestPath.kind,
                           source |-> <<>>, dest |-> <<>>]
                     ELSE [ok |-> TRUE, kind |-> "ok",
                           source |-> validSourcePath.path, dest |-> validDestPath.path]
                     : validDestPath \in {validatePath(f, dirs, destination)} })
          : validSourcePath \in {validatePath(f, dirs, source)} })

\* index.ts:678-689
move_file(f, dirs, source, destination) ==
    The({ IF ~valid.ok THEN Outcome(f, Error(valid.kind, <<>>), {})
          ELSE The({ IF ~renamed.ok THEN Outcome(f, Error("IOError", <<>>), {})
                     ELSE Outcome(renamed.fs, Success(<<>>), renamed.at)
                     : renamed \in {Rename(f, valid.source, valid.dest)} })
          : valid \in {ValidateBoth(f, dirs, source, destination)} })

\* index.ts:734-740 and 782-788: "try { await fs.access(dest); throw new
\* Error(ya existe) } catch { }".  The throw is inside the try, so the
\* catch swallows it: the block never rejects, whether dest exists or not.
DestinationRejected(f, validDestPath) ==
    IF Access(f, validDestPath) THEN FALSE ELSE FALSE

\* index.ts:742-761: the copy of a file once the checks have passed
CopyOneFile(f, validSourcePath, validDestPath) ==
    The({ IF stats.val.kind = "dir" THEN Outcome(f, Error("IsADirectory", <<>>), {})
          ELSE The({ IF ~copied.ok THEN Outcome(f, Error("IOError", <<>>), {})
                     ELSE Outcome(copied.fs, Success(<<>>),
                                  copied.at \cup SetMeta(copied.fs, validDestPath).at)
                     : copied \in {CopyFile(f, validSourcePath, validDestPath)} })
          : stats \in {Stat(f, validSourcePath)} })

\* index.ts:719-762
copy_file(f, dirs, source, destination) ==
    The({ IF ~valid.ok THEN Outcome(f, Error(valid.kind, <<>>), {})
          ELSE IF ~Access(f, valid.source)
               THEN Outcome(f, Error("SourceMissing", <<>>), {})
          ELSE IF DestinationRejected(f, valid.dest)
               THEN Outcome(f, Error("AlreadyExists", <<>>), {})
          ELSE CopyOneFile(f, valid.source, valid.dest)
          : valid \in {ValidateBoth(f, dirs, source, destination)} })

\* the order in which readdir lists names is the system's: ascending or
\* descending in this list
AllNames ==
    <<"B", "b", "bc", "build", "d", "e", "f", "g", "k", "l", "ld", "li", "lr", "m", "n",
      "o", "s", "x">>
NameRank(name) == CHOOSE i \in 1..Len(AllNames) : AllNames[i] = name

RECURSIVE EntrySeq(_, _)
EntrySeq(entries, descending) ==
    IF entries = {} THEN <<>>
    ELSE The({ <<first>> \o EntrySeq(entries \ {first}, descending)
               : first \in {CHOOSE e \in entries : \A o \in entries :
                              IF descending THEN NameRank(o.name) <= NameRank(e.name)
                                            ELSE NameRank(e.name) <= NameRank(o.name)} })

RECURSIVE copyDir(_, _, _, _, _)
RECURSIVE copyEntries(_, _, _, _, _, _, _)
\* index.ts:369-391: the loop over the entries, from the filesystem and the
\* locations reached so far; the first failing call ends it
copyEntries(f, at, entries, src, dest, recursive, descending) ==
    IF entries = <<>> THEN [ok |-> TRUE, fs |-> f, at |-> at]
    ELSE IF Head(entries).isDirectory
    THEN IF recursive
         THEN The({ IF sub.ok
                    THEN copyEntries(sub.fs, at \cup sub.at, Tail(entries),
                                     src, dest, recursive, descending)
                    ELSE [ok |-> FALSE, fs |-> sub.fs, at |-> at \cup sub.at]
                    : sub \in {copyDir(f, Append(src, Head(entries).name),
                                       Append(dest, Head(entries).name),
                                       recursive, descending)} })
         ELSE copyEntries(f, at, Tail(entries), src, dest, recursive, descending)
    ELSE The({ IF copied.ok
               THEN copyEntries(copied.fs,
                                at \cup copied.at
                                   \cup SetMeta(copied.fs, Append(dest, Head(entries).name)).at,
                                Tail(entries), src, dest, recursive, descending)
               ELSE [ok |-> FALSE, fs |-> f, at |-> at]
               : copied \in {CopyFile(f, Append(src, Head(entries).name),
                                      Append(dest, Head(entries).name))} })

\* index.ts:393-400: the times and mode of the copied directory
copyDirMeta(copied, src, dest) ==
    The({ IF ~stats.ok \/ ~meta.ok
          THEN [ok |-> FALSE, fs |-> copied.fs, at |-> copied.at]
          ELSE [ok |-> TRUE, fs |-> copied.fs, at |-> copied.at \cup stats.at \cup meta.at]
          : stats \in {Stat(copied.fs, src)}, meta \in {SetMeta(copied.fs, dest)} })

\* index.ts:361-401
copyDir(f, src, dest, recursive, descending) ==
    The({ IF ~made.ok THEN [ok |-> FALSE, fs |-> f, at |-> {}]
          ELSE The({ IF ~entries.ok THEN [ok |-> FALSE, fs |-> made.fs, at |-> made.at]
                     ELSE The({ IF ~copied.ok THEN copied
                                ELSE copyDirMeta(copied, src, dest)
                                : copied \in {copyEntries(made.fs, made.at \cup entries.at,
                                                  EntrySeq(entries.val, descending),
                                                  src, dest, recursive, descending)} })
                     : entries \in {Readdir(made.fs, src)} })
          : made \in {Mkdir(f, dest)} })

\* index.ts:764-796.  Lines 773-780: a source that is no directory throws
\* inside the try, and the catch reports it as a missing source.
copy_directory(f, dirs, source, destination, recursive, descending) ==
    The({ IF ~valid.ok THEN Outcome(f, Error(valid.kind, <<>>), {})
          ELSE IF The({ ~stats.ok \/ stats.val.kind # "dir"
                        : stats \in {Stat(f, valid.source)} })
               THEN Outcome(f, Error("SourceMissing", <<>>), {})
          ELSE IF DestinationRejected(f, valid.dest)
               THEN Outcome(f, Error("AlreadyExists", <<>>), {})
          ELSE The({ IF ~copied.ok THEN Outcome(copied.fs, Error("IOError", <<>>), copied.at)
                     ELSE Outcome(copied.fs, Success(<<>>), copied.at)
                     : copied \in {copyDir(f, valid.source, valid.dest,
                                           recursive, descending)} })
          : valid \in {ValidateBoth(f, dirs, source, destination)} })

\* a delete_file that removes a directory recursively whatever the force flag
RemoveEntryIgnoringForce(f, validPath, isDirectory, force) ==
    IF isDirectory THEN Rm(f, validPath) ELSE Unlink(f, validPath)

\* index.ts:812-830: the removal, by the kind of the entry
RemoveEntry(f, validPath, isDirectory, force) ==
    IF isDirectory
    THEN IF force THEN Rm(f, validPath)
         ELSE The({ IF ~entries.ok THEN Failed(f)
                    ELSE IF entries.val # {} THEN [Failed(f) EXCEPT !.val = "NotEmpty"]
                    ELSE Rmdir(f, validPath)
                    : entries \in {Readdir(f, validPath)} })
    ELSE Unlink(f, validPath)

\* index.ts:798-835
delete_file(f, dirs, path, force) ==
    The({ IF ~validPath.ok THEN Outcome(f, Error(validPath.kind, <<>>), {})
          ELSE IF ~Access(f, validPath.path) THEN Outcome(f, Error("NotFound", <<>>), {})
          ELSE The({ IF ~removed.ok
                     THEN Outcome(f, Error(IF removed.val = "NotEmpty" THEN "NotEmpty"
                                           ELSE "IOError", <<>>), {})
                     ELSE Outcome(removed.fs, Success(<<>>), removed.at)
                     : removed \in {RemoveEntry(f, validPath.path,
                                        Stat(f, validPath.path).val.kind = "dir", force)} })
          : validPath \in {validatePath(f, dirs, path)} })

(***************************************************************************)
(* read_multiple_files, index.ts:562-582.  Every requested path is handled *)
(* by its own asynchronous function with its own try/catch; Promise.all    *)
(* puts each outcome in the slot of its request, in whatever order the     *)
(* functions complete.  The text of the result is the items joined by      *)
(* "\n---\n"; the model keeps the items apart.                             *)
(***************************************************************************)

\* index.ts:568-577: one item, "<path>:\n<content>\n" or "<path>: Error - <message>"
readOne(f, dirs, filePath) ==
    The({ IF ~validPath.ok
          THEN [path |-> filePath, isError |-> TRUE, kind |-> validPath.kind,
                text |-> <<>>, at |-> {}]
          ELSE The({ IF ~content.ok
                     THEN [path |-> filePath, isError |-> TRUE, kind |-> "IOError",
                           text |-> <<>>, at |-> {}]
                     ELSE [path |-> filePath, isError |-> FALSE, kind |-> "ok",
                           text |-> content.val, at |-> content.at]
                     : content \in {ReadFile(f, validPath.path)} })
          : validPath \in {validatePath(f, dirs, filePath)} })

Item(read) == [path |-> read.path, isError |-> read.isError,
               kind |-> read.kind, text |-> read.text]

Pending == [path |-> <<>>, isError |-> TRUE, kind |-> "pending", text |-> <<>>]

\* the first failing item rejects the whole call (what Promise.all does when
\* a mapped function throws); the code's functions never throw
RECURSIVE settleOrReject(_, _, _, _, _, _, _)
settleOrReject(f, dirs, paths, order, k, slots, at) ==
    IF k > Len(order) THEN Outcome(f, Success(slots), at)
    ELSE The({ IF read.isError THEN Outcome(f, Error(read.kind, <<>>), at)
               ELSE settleOrReject(f, dirs, paths, order, k + 1,
                                   [slots EXCEPT ![order[k]] = Item(read)],
                                   at \cup read.at)
               : read \in {readOne(f, dirs, paths[order[k]])} })

\* index.ts:567-578: the k-th function to complete fills the slot of its request
RECURSIVE settle(_, _, _, _, _, _, _)
settle(f, dirs, paths, order, k, slots, at) ==
    IF k > Len(order) THEN Outcome(f, Success(slots), at)
    ELSE The({ settle(f, dirs, paths, order, k + 1,
                      [slots EXCEPT ![order[k]] = Item(read)], at \cup read.at)
               : read \in {readOne(f, dirs, paths[order[k]])} })

\* index.ts:562-582; order is the order in which the reads complete
read_multiple_files(f, dirs, paths, order) ==
    settle(f, dirs, paths, order, 1, [i \in 1..Len(paths) |-> Pending], {})

\* index.ts:837-844
list_allowed_directories(f, dirs) == Outcome(f, Success(dirs), {})

\* index.ts:846-847, caught at 849-855
unknown_tool(f, name) == Outcome(f, Error("UnknownTool", <<>>), {})

\* the safeParse of every case (index.ts:551-554, 563-566, 585-588, ...):
\* arguments that do not fit the schema of the tool, caught at 849-855
invalid_arguments(f, name) == Outcome(f, Error("InvalidArguments", <<>>), {})

(***************************************************************************)
(* search_files: searchFiles, index.ts:216-260, and its case, 691-701.     *)
(* An exclude pattern is a segment name or "*".                            *)
(***************************************************************************)

\* String.prototype.toLowerCase on the letters of the model
ToLower(chars) ==
    [k \in 1..Len(chars) |-> CASE chars[k] = "B" -> "b" [] OTHER -> chars[k]]

\* index.ts:244: the entry's name contains the pattern, case-insensitively
NameMatches(name, pattern) == Includes(ToLower(NameChars(name)), ToLower(pattern))

\* path.relative(rootPath, fullPath) for a path below the root
RelativePath(rootPath, fullPath) == SubSeq(fullPath, Len(rootPath) + 1, Len(fullPath))

\* exclusion by name: some segment of the relative path, the entry's own
\* name included, is the pattern
GlobMatchesOwnName(relativePath, pattern) ==
    IF pattern = "*" THEN Len(relativePath) = 1
    ELSE \E k \in 1..Len(relativePath) : relativePath[k] = pattern

\* index.ts:236-237: minimatch(relativePath, globPattern, {dot: true}).
\* A pattern without "*" becomes **/pattern/**, which matches a path with
\* a segment named pattern followed by at least one more segment (the
\* trailing ** needs a segment to match; the path "pattern" alone does not
\* match).  The glob "*" matches every path of one segment.
GlobMatches(relativePath, pattern) ==
    IF pattern = "*" THEN Len(relativePath) = 1
    ELSE \E k \in 1..(Len(relativePath) - 1) : relativePath[k] = pattern

\* index.ts:235-238
shouldExclude(relativePath, excludePatterns) ==
    \E pattern \in excludePatterns : GlobMatches(relativePath, pattern)

\* what a search has gathered: the results in the order pushed, the
\* directories listed and the paths passed to validatePath
NoFindings == [results |-> <<>>, listed |-> {}, validated |-> {}]

RECURSIVE search(_, _, _, _, _, _, _, _)
RECURSIVE searchEntries(_, _, _, _, _, _, _, _, _)
\* index.ts:226-255: the loop over the entries of currentPath
searchEntries(f, dirs, rootPath, currentPath, entries, pattern, excludePatterns, descending, found) ==
    IF entries = <<>> THEN found
    ELSE The({ The({
           IF ~valid.ok \/ shouldExclude(RelativePath(rootPath, fullPath), excludePatterns)
           THEN searchEntries(f, dirs, rootPath, currentPath, Tail(entries), pattern,
                              excludePatterns, descending, checked)
           ELSE The({ searchEntries(f, dirs, rootPath, currentPath, Tail(entries),
                          pattern, excludePatterns, descending,
                          IF Head(entries).isDirectory
                          THEN search(f, dirs, rootPath, fullPath, pattern,
                                      excludePatterns, descending, pushed).found
                          ELSE pushed)
                      : pushed \in {IF NameMatches(Head(entries).name, pattern)
                                    THEN [checked EXCEPT !.results = Append(@, fullPath)]
                                    ELSE checked} })
           : valid \in {validatePath(f, dirs, [abs |-> TRUE, segs |-> fullPath])},
             checked \in {[found EXCEPT !.validated = @ \cup {fullPath}]} })
         : fullPath \in {Append(currentPath, Head(entries).name)} })

\* index.ts:223-256: search(currentPath); a readdir that fails throws (ok
\* FALSE) with what was gathered before it
search(f, dirs, rootPath, currentPath, pattern, excludePatterns, descending, found) ==
    The({ IF ~entries.ok THEN [ok |-> FALSE, found |-> found]
          ELSE [ok |-> TRUE,
                found |-> searchEntries(f, dirs, rootPath, currentPath,
                              EntrySeq(entries.val, descending), pattern,
                              excludePatterns, descending,
                              [found EXCEPT !.listed = @ \cup entries.at])]
          : entries \in {Readdir(f, currentPath)} })

\* index.ts:216-260
searchFiles(f, dirs, rootPath, pattern, excludePatterns, descending) ==
    search(f, dirs, rootPath, rootPath, pattern, excludePatterns, descending, NoFindings)

\* index.ts:699: the text of the result
SearchText(results) == IF Len(results) > 0 THEN results ELSE <<"NoMatches">>

\* index.ts:691-701; the outcome also names the paths passed to
\* validatePath
search_files(f, dirs, path, pattern, excludePatterns, descending) ==
    The({ IF ~validPath.ok
          THEN [fs |-> f, result |-> Error(validPath.kind, <<>>), at |-> {},
                validated |-> {AbsolutePath(path)}]
          ELSE The({ IF ~searched.ok
                     THEN [fs |-> f, result |-> Error("IOError", <<>>), at |-> {},
                           validated |-> {AbsolutePath(path)}]
                     ELSE [fs |-> f, result |-> Success(SearchText(searched.found.results)),
                           at |-> searched.found.listed,
                           validated |-> {AbsolutePath(path)}
                                            \cup searched.found.validated]
                     : searched \in {searchFiles(f, dirs, validPath.path, pattern,
                                                 excludePatterns, descending)} })
          : validPath \in {validatePath(f, dirs, path)} })

(***************************************************************************)
(* directory_tree: buildTree, index.ts:647-667, and its case, 635-676.     *)
(***************************************************************************)

\* path.join(currentPath, entry.name)
JoinPath(currentPath, name) == [currentPath EXCEPT !.segs = Append(@, name)]

RECURSIVE buildTree(_, _, _, _, _)
RECURSIVE buildEntries(_, _, _, _, _, _)
\* index.ts:652-664: the loop over the entries; a failing buildTree of a
\* subdirectory throws out of the loop
buildEntries(f, dirs, currentPath, entries, descending, built) ==
    IF entries = <<>> THEN built
    ELSE IF ~Head(entries).isDirectory
    THEN buildEntries(f, dirs, currentPath, Tail(entries), descending,
             [built EXCEPT !.tree = Append(@, [name |-> Head(entries).name,
                                               type |-> "file", children |-> <<>>])])
    ELSE The({ IF ~sub.ok THEN sub
               ELSE buildEntries(f, dirs, currentPath, Tail(entries), descending,
                        [sub EXCEPT !.tree = Append(built.tree,
                                                 [name |-> Head(entries).name,
                                                  type |-> "directory",
                                                  children |-> sub.tree])])
               : sub \in {buildTree(f, dirs, JoinPath(currentPath, Head(entries).name),
                                    descending, [built EXCEPT !.tree = <<>>])} })

\* index.ts:647-667: buildTree(currentPath), from what was listed and
\* validated so far
buildTree(f, dirs, currentPath, descending, built) ==
    The({ IF ~validPath.ok THEN [checked EXCEPT !.ok = FALSE, !.kind = validPath.kind]
           ELSE The({ IF ~entries.ok THEN [checked EXCEPT !.ok = FALSE, !.kind = "IOError"]
                      ELSE buildEntries(f, dirs, currentPath,
                               EntrySeq(entries.val, descending), descending,
                               [checked EXCEPT !.listed = @ \cup entries.at])
                      : entries \in {Readdir(f, validPath.path)} })
           : validPath \in {validatePath(f, dirs, currentPath)},
             checked \in {[built EXCEPT !.validated = @ \cup {AbsolutePath(currentPath)}]} })

\* index.ts:635-676; the outcome also names the paths passed to
\* validatePath
directory_tree(f, dirs, path, descending) ==
    The({ IF ~built.ok
          THEN [fs |-> f, result |-> Error(built.kind, <<>>), at |-> {},
                validated |-> built.validated]
          ELSE [fs |-> f, result |-> Success(built.tree), at |-> built.listed,
                validated |-> built.validated]
          : built \in {buildTree(f, dirs, path, descending,
                                 [ok |-> TRUE, kind |-> "ok", tree |-> <<>>,
                                  listed |-> {}, validated |-> {}])} })

(***************************************************************************)
(* The state machine: the server after startup, handling tool calls one    *)
(* at a time.                                                              *)
(***************************************************************************)
Abs(segs) == [abs |-> TRUE, segs |-> segs]
Rel(segs) == [abs |-> FALSE, segs |-> segs]
NoRequest == Rel(<<>>)

\* The filesystem at startup: the sandbox /b with a file, a directory with
\* a file, an empty directory, a link to a file outside, a link to a
\* directory outside and a link to a file inside; the outside directory /o;
\* a link /lr to the sandbox; and the sibling directory /bc with a file.
BaseFiles ==
    ( <<>>            :> Dir
   @@ <<"b">>         :> Dir
   @@ <<"b", "f">>    :> File(<<"a">>)
   @@ <<"b", "d">>    :> Dir
   @@ <<"b", "d", "g">> :> File(<<"b">>)
   @@ <<"b", "e">>    :> Dir
   @@ <<"b", "l">>    :> Link(<<"o", "s">>)
   @@ <<"b", "ld">>   :> Link(<<"o">>)
   @@ <<"b", "li">>   :> Link(<<"b", "f">>)
   @@ <<"o">>         :> Dir
   @@ <<"o", "s">>    :> File(<<"s">>)
   @@ <<"lr">>        :> Link(<<"b">>) )

SiblingFiles ==
    ( <<"bc">>        :> Dir
   @@ <<"bc", "x">>   :> File(<<"x">>) )

InitialFilesystems == {BaseFiles @@ SiblingFiles}

\* index.ts:20 and 41-43: the directories of the command line, resolved
\* and normalized (never passed through realpath)
CommandLines == { {Abs(<<"b">>)}, {Abs(<<"lr">>)} }
AllowedDirectoriesOf(args) == {normalizePath(AbsolutePath(dir)) : dir \in args}

\* the arguments of the tool calls
\* (relative to the working directory /b, "../o/s" is /o/s; with the home
\* directory /o, "~/../lr/f" is /lr/f)
Paths ==
    { Abs(<<"b", "f">>), Abs(<<"b", "d">>), Abs(<<"b", "e">>), Abs(<<"b", "n">>),
      Abs(<<"b", "n", "m">>), Abs(<<"b", "l">>), Abs(<<"b", "ld", "s">>),
      Abs(<<"b", "li">>), Abs(<<"bc", "x">>), Rel(<<"..", "o", "s">>),
      Rel(<<"~", "..", "lr", "f">>) }
Sources ==
    { Abs(<<"b", "f">>), Abs(<<"b", "d">>), Abs(<<"b", "l">>) }
Destinations ==
    { Abs(<<"b", "n">>), Abs(<<"b", "e">>), Abs(<<"b", "d", "g">>), Abs(<<"bc", "x">>) }
Contents == { <<"w">> }
EditLists == { << [oldText |-> <<"a">>, newText |-> <<"c">>] >> }

NoCall ==
    [tool |-> "none", path |-> NoRequest, dest |-> NoRequest, content |-> <<>>,
     edits |-> <<>>, flag |-> FALSE, pre |-> <<>>, prev |-> <<>>]

Init ==
    /\ fs \in InitialFilesystems
    /\ allowedDirectories \in {AllowedDirectoriesOf(args) : args \in CommandLines}
    /\ result = Success(<<>>)
    /\ call = NoCall
    /\ touched = {}
    /\ ncalls = 0
    /\ process = "serving"
    /\ inflight = <<>>

\* the request handler returns the outcome of the tool's case
Handle(thisCall, out) ==
    /\ process = "serving"
    /\ ncalls < MaxCalls
    /\ ncalls' = ncalls + 1
    /\ call' = [thisCall EXCEPT !.pre = fs]
    /\ fs' = out.fs
    /\ result' = out.result
    /\ touched' = touched \cup out.at
    /\ UNCHANGED <<allowedDirectories, process, inflight>>

ReadFileCall ==
    \E path \in Paths :
        Handle([NoCall EXCEPT !.tool = "read_file", !.path = path],
               read_file(fs, allowedDirectories, path))

WriteFileCall ==
    \E path \in Paths, content \in Contents :
        Handle([NoCall EXCEPT !.tool = "write_file", !.path = path, !.content = content],
               write_file(fs, allowedDirectories, path, content))

EditFileCall ==
    \E path \in Paths, edits \in EditLists, dryRun \in BOOLEAN :
        Handle([NoCall EXCEPT !.tool = "edit_file", !.path = path, !.edits = edits,
                              !.flag = dryRun],
               edit_file(fs, allowedDirectories, path, edits, dryRun))

CreateDirectoryCall ==
    \E path \in Paths :
        Handle([NoCall EXCEPT !.tool = "create_directory", !.path = path],
               create_directory(fs, allowedDirectories, path))

ListDirectoryCall ==
    \E path \in Paths :
        Handle([NoCall EXCEPT !.tool = "list_directory", !.path = path],
               list_directory(fs, allowedDirectories, path))

GetFileInfoCall ==
    \E path \in Paths :
        Handle([NoCall EXCEPT !.tool = "get_file_info", !.path = path],
               get_file_info(fs, allowedDirectories, path))

MoveFileCall ==
    \E source \in Sources, destination \in Destinations :
        Handle([NoCall EXCEPT !.tool = "move_file", !.path = source, !.dest = destination],
               move_file(fs, allowedDirectories, source, destination))

CopyFileCall ==
    \E source \in Sources, destination \in Destinations :
        Handle([NoCall EXCEPT !.tool = "copy_file", !.path = source, !.dest = destination],
               copy_file(fs, allowedDirectories, source, destination))

CopyDirectoryCall ==
    \E source \in Sources, destination \in Destinations,
       recursive \in BOOLEAN, descending \in BOOLEAN :
        Handle([NoCall EXCEPT !.tool = "copy_directory", !.path = source,
                              !.dest = destination, !.flag = recursive],
               copy_directory(fs, allowedDirectories, source, destination,
                              recursive, descending))

DeleteFileCall ==
    \E path \in Paths, force \in BOOLEAN :
        Handle([NoCall EXCEPT !.tool = "delete_file", !.path = path, !.flag = force],
               delete_file(fs, allowedDirectories, path, force))

Next ==
    \/ ReadFileCall
    \/ WriteFileCall
    \/ EditFileCall
    \/ CreateDirectoryCall
    \/ ListDirectoryCall
    \/ GetFileInfoCall
    \/ MoveFileCall
    \/ CopyFileCall
    \/ CopyDirectoryCall
    \/ DeleteFileCall

Spec == Init /\ [][Next]_vars

(***************************************************************************)
(* The edit engine on its own: one file /b/f under the root /b, with any   *)
(* short content; one edit_file call with one or two edits, and after a    *)
(* persisted one-edit call a second one-edit call.                         *)
(***************************************************************************)
Texts(chars, n) == UNION {[1..k -> chars] : k \in 0..n}

FileTexts == Texts({"a", CR, LF}, MaxText)
SearchTexts == { <<>>, <<"a">>, <<CR>>, <<LF>>, <<"a", LF>>, <<"z">>, <<SP, "a">> }
ReplaceTexts == { <<>>, <<"b">>, <<"$", "$">>, <<"$", "&">>, <<CR>> }
Edits == {[oldText |-> o, newText |-> n] : o \in SearchTexts, n \in ReplaceTexts}
\* the edits that follow another edit, in the same call or in the next
SecondEdits ==
    { [oldText |-> <<"z">>, newText |-> <<"b">>],
      [oldText |-> <<>>,    newText |-> <<>>],
      [oldText |-> <<"a">>, newText |-> <<"b">>],
      [oldText |-> <<"b">>, newText |-> <<"$", "&">>],
      [oldText |-> <<CR>>,  newText |-> <<>>],
      [oldText |-> <<LF>>,  newText |-> <<"b">>] }
EditSeqs == {<<e>> : e \in Edits} \cup {<<e1, e2>> : e1 \in Edits, e2 \in SecondEdits}

EditedFile == Abs(<<"b", "f">>)
EditFilesystem(content) ==
    ( <<>> :> Dir @@ <<"b">> :> Dir @@ <<"b", "f">> :> File(content) )

InitEdit ==
    /\ fs \in {EditFilesystem(content) : content \in FileTexts}
    /\ allowedDirectories = AllowedDirectoriesOf({Abs(<<"b">>)})
    /\ result = Success(<<>>)
    /\ call = NoCall
    /\ touched = {}
    /\ ncalls = 0
    /\ process = "serving"
    /\ inflight = <<>>

EditOnce ==
    /\ ncalls = 0
    /\ \E edits \in EditSeqs, dryRun \in BOOLEAN :
          Handle([NoCall EXCEPT !.tool = "edit_file", !.path = EditedFile,
                                !.edits = edits, !.flag = dryRun],
                 edit_file(fs, allowedDirectories, EditedFile, edits, dryRun))

EditAgain ==
    /\ ncalls = 1
    /\ call.tool = "edit_file" /\ Len(call.edits) = 1 /\ ~call.flag /\ ~result.isError
    /\ \E edit \in SecondEdits :
          Handle([NoCall EXCEPT !.tool = "edit_file", !.path = EditedFile,
                                !.edits = <<edit>>, !.prev = call],
                 edit_file(fs, allowedDirectories, EditedFile, <<edit>>, FALSE))

NextEdit == EditOnce \/ EditAgain

SpecEdit == InitEdit /\ [][NextEdit]_vars

(***************************************************************************)
(* The whitespace-tolerant strategy on its own: the file /b/f holds up to  *)
(* MaxLines indented lines; one edit_file call with one edit of one or two *)
(* lines each side.                                                        *)
(***************************************************************************)
RECURSIVE LineTexts(_, _)
\* the texts of 1..n lines drawn from a set of lines
LineTexts(lines, n) ==
    IF n = 0 THEN {}
    ELSE lines \cup {l \o <<LF>> \o t : l \in lines, t \in LineTexts(lines, n - 1)}

BufferLines == { <<"a">>, <<SP, "a">>, <<"b">>, <<SP, SP, "b">> }
SearchLines == { <<"a">>, <<SP, SP, "a">>, <<"b">>, <<SP, "b">> }
ReplaceLines == { <<"c">>, <<SP, "c">>, <<SP, SP, "c">> }
IndentedEdits ==
    {[oldText |-> o, newText |-> n] :
        o \in LineTexts(SearchLines, 2), n \in LineTexts(ReplaceLines, 2)}

InitFuzzy ==
    /\ fs \in {EditFilesystem(content) : content \in LineTexts(BufferLines, MaxLines)}
    /\ allowedDirectories = AllowedDirectoriesOf({Abs(<<"b">>)})
    /\ result = Success(<<>>)
    /\ call = NoCall
    /\ touched = {}
    /\ ncalls = 0
    /\ process = "serving"
    /\ inflight = <<>>

EditIndented ==
    /\ ncalls = 0
    /\ \E edit \in IndentedEdits :
          Handle([NoCall EXCEPT !.tool = "edit_file", !.path = EditedFile,
                                !.edits = <<edit>>],
                 edit_file(fs, allowedDirectories, EditedFile, <<edit>>, FALSE))

NextFuzzy == EditIndented

SpecFuzzy == InitFuzzy /\ [][NextFuzzy]_vars

(***************************************************************************)
(* The fence of the returned diff on its own: formatDiff applied to any    *)
(* diff text of up to MaxDiff characters drawn from a backtick, a letter   *)
(* and a line feed.                                                        *)
(***************************************************************************)
DiffTexts == Texts({BT, "a", LF}, MaxDiff)

InitFence ==
    /\ fs = EditFilesystem(<<>>)
    /\ allowedDirectories = AllowedDirectoriesOf({Abs(<<"b">>)})
    /\ result = Success(<<>>)
    /\ call \in {[NoCall EXCEPT !.content = diff] : diff \in DiffTexts}
    /\ touched = {}
    /\ ncalls = 0
    /\ process = "serving"
    /\ inflight = <<>>

FormatDiff ==
    /\ ncalls = 0
    /\ Handle([call EXCEPT !.tool = "formatDiff"],
              Outcome(fs, Success(formatDiff(call.content)), {}))

NextFence == FormatDiff

SpecFence == InitFence /\ [][NextFence]_vars

(***************************************************************************)
(* The recursive tools on their own: one search_files, directory_tree or   *)
(* copy_directory call on a tree under the root /b with directories named  *)
(* build, links out of the root and a file with an upper-case name.        *)
(***************************************************************************)
WalkBase ==
    ( <<>>              :> Dir
   @@ <<"b">>           :> Dir
   @@ <<"b", "B">>      :> File(<<"a">>)
   @@ <<"b", "build">>  :> Dir
   @@ <<"b", "d">>      :> Dir
   @@ <<"b", "d", "k">> :> Link(<<"o", "s">>)
   @@ <<"b", "ld">>     :> Link(<<"o">>)
   @@ <<"o">>           :> Dir
   @@ <<"o", "s">>      :> File(<<"s">>) )

\* entries that may be there or not
WalkOptions ==
    { ( <<"b", "build", "x">> :> File(<<"x">>) ),
      ( <<"b", "d", "build">> :> Dir @@ <<"b", "d", "build", "g">> :> File(<<"b">>) ),
      ( <<"b", "l">> :> Link(<<"o", "s">>) ) }

RECURSIVE Merged(_)
Merged(parts) ==
    IF parts = {} THEN WalkBase
    ELSE The({ part @@ Merged(parts \ {part}) : part \in {CHOOSE q \in parts : TRUE} })

WalkFilesystems == {Merged(parts) : parts \in SUBSET WalkOptions}

WalkRoots ==
    { Abs(<<"b">>), Abs(<<"b", "d">>), Abs(<<"b", "ld">>), Abs(<<"b", "build">>),
      Abs(<<"b", "B">>), Rel(<<"..", "o">>) }
SearchPatterns == { <<>>, <<"b">>, <<"B">>, <<"b", "u", "i", "l", "d">>, <<"x">> }
ExcludeSets == { {}, {"build"}, {"*"}, {"d", "build"} }
CopyDestinations == { Abs(<<"b", "n">>), Abs(<<"b", "build">>) }

\* a call record with the arguments of search_files and the paths the call
\* passed to validatePath
WalkCall(tool, path, dest, pattern, excludePatterns, validated) ==
    [pattern |-> pattern, excludePatterns |-> excludePatterns, validated |-> validated]
        @@ [NoCall EXCEPT !.tool = tool, !.path = path, !.dest = dest]

InitWalk ==
    /\ fs \in WalkFilesystems
    /\ allowedDirectories = AllowedDirectoriesOf({Abs(<<"b">>)})
    /\ result = Success(<<>>)
    /\ call = NoCall
    /\ touched = {}
    /\ ncalls = 0
    /\ process = "serving"
    /\ inflight = <<>>

SearchFilesCall ==
    /\ ncalls = 0
    /\ \E path \in WalkRoots, pattern \in SearchPatterns,
          excludePatterns \in ExcludeSets, descending \in BOOLEAN :
          \E out \in {search_files(fs, allowedDirectories, path, pattern,
                                   excludePatterns, descending)} :
              Handle(WalkCall("search_files", path, NoRequest, pattern, excludePatterns,
                              out.validated), out)

DirectoryTreeCall ==
    /\ ncalls = 0
    /\ \E path \in WalkRoots, descending \in BOOLEAN :
          \E out \in {directory_tree(fs, allowedDirectories, path, descending)} :
              Handle(WalkCall("directory_tree", path, NoRequest, <<>>, {}, out.validated),
                     out)

\* index.ts:769-770 are the only validatePath calls of copy_directory:
\* the source, and the destination once the source has passed
CopyTreeCall ==
    /\ ncalls = 0
    /\ \E source \in WalkRoots, destination \in CopyDestinations, descending \in BOOLEAN :
          Handle(WalkCall("copy_directory", source, destination, <<>>, {},
                          {AbsolutePath(source)}
                              \cup IF validatePath(fs, allowedDirectories, source).ok
                                   THEN {AbsolutePath(destination)} ELSE {}),
                 copy_directory(fs, allowedDirectories, source, destination,
                                TRUE, descending))

NextWalk == SearchFilesCall \/ DirectoryTreeCall \/ CopyTreeCall

SpecWalk == InitWalk /\ [][NextWalk]_vars

(***************************************************************************)
(* The recursive tools on trees with symbolic-link cycles: a link in /b/d  *)
(* back to its ancestor /b, and two links that point at each other.  The   *)
(* copy destinations /b/n and /b/build lie inside the source /b.           *)
(***************************************************************************)
CycleOptions ==
    { ( <<"b", "d", "lr">> :> Link(<<"b">>) ),
      ( <<"b", "l">> :> Link(<<"b", "li">>) @@ <<"b", "li">> :> Link(<<"b", "l">>) ) }

CycleFilesystems == {Merged(parts) : parts \in (SUBSET CycleOptions) \ {{}}}

InitCycle ==
    /\ fs \in CycleFilesystems
    /\ allowedDirectories = AllowedDirectoriesOf({Abs(<<"b">>)})
    /\ result = Success(<<>>)
    /\ call = NoCall
    /\ touched = {}
    /\ ncalls = 0
    /\ process = "serving"
    /\ inflight = <<>>

SpecCycle == InitCycle /\ [][NextWalk]_vars

(***************************************************************************)
(* Startup: the module body, index.ts:20-59, and runServer, 861-872; then  *)
(* the tool calls of a serving process.                                    *)
(***************************************************************************)

\* index.ts:46-59: what the arrow function checks of the directories of
\* the command line.  The function is an expression statement; nothing
\* calls it.
DirectoriesExist(f, dirs) ==
    \A dir \in dirs : The({ stats.ok /\ stats.val.kind = "dir" : stats \in {Stat(f, dir)} })

\* command lines: none, the directory /b, the missing /m, the file /b/f,
\* and /b with the missing /m
StartupCommandLines ==
    { {}, {Abs(<<"b">>)}, {Abs(<<"m">>)}, {Abs(<<"b", "f">>)},
      {Abs(<<"b">>), Abs(<<"m">>)} }

InitStartup ==
    /\ fs \in InitialFilesystems
    /\ allowedDirectories \in {AllowedDirectoriesOf(args) : args \in StartupCommandLines}
    /\ result = Success(<<>>)
    /\ call = NoCall
    /\ touched = {}
    /\ ncalls = 0
    /\ process = "starting"
    /\ inflight = <<>>

\* index.ts:20-24: no argument, exit(1); 41-43 hold allowedDirectories;
\* 46-59 run nothing; 861-867: the transport connects and the server serves
StartServer ==
    /\ process = "starting"
    /\ process' = IF allowedDirectories = {} THEN "exit1" ELSE "serving"
    /\ UNCHANGED <<fs, allowedDirectories, result, call, touched, ncalls, inflight>>

\* index.ts:869-872: server.connect rejects
ConnectFails ==
    /\ process = "starting"
    /\ allowedDirectories # {}
    /\ process' = "exit1"
    /\ UNCHANGED <<fs, allowedDirectories, result, call, touched, ncalls, inflight>>

NextStartup ==
    \/ StartServer
    \/ ConnectFails
    \/ ReadFileCall
    \/ WriteFileCall
    \/ CreateDirectoryCall
    \/ DeleteFileCall

SpecStartup == InitStartup /\ [][NextStartup]_vars

(***************************************************************************)
(* Every case of the request handler: the tools of Spec, and with them     *)
(* read_multiple_files, search_files, directory_tree,                      *)
(* list_allowed_directories, a tool name the switch does not know and      *)
(* arguments that do not fit the schema of the tool.                       *)
(***************************************************************************)
ToolNames ==
    { "read_file", "read_multiple_files", "write_file", "edit_file", "create_directory",
      "list_directory", "directory_tree", "move_file", "search_files", "get_file_info",
      "copy_file", "copy_directory", "delete_file", "list_allowed_directories" }
UnknownNames == { "read", "" }
TwoPathTools == {"move_file", "copy_file", "copy_directory"}

\* the lists of paths of read_multiple_files: a file and a path outside, a
\* path with a missing parent and a file, a directory and a link to a file,
\* a link out of the root and a file, a single file, no path at all
PathLists ==
    { << Abs(<<"b", "f">>), Rel(<<"..", "o", "s">>) >>,
      << Abs(<<"b", "n", "m">>), Abs(<<"b", "f">>) >>,
      << Abs(<<"b", "d">>), Abs(<<"b", "li">>) >>,
      << Abs(<<"b", "l">>), Abs(<<"b", "d", "g">>) >>,
      << Abs(<<"b", "f">>) >>,
      << >> }

\* destinations outside the root and below a missing directory
OtherDestinations == { Rel(<<"..", "o", "n">>), Abs(<<"b", "n", "m">>) }

\* the orders in which n reads may complete
Orders(n) ==
    { order \in [1..n -> 1..n] : \A i, j \in 1..n : order[i] = order[j] => i = j }

BatchCall(paths, order) ==
    [paths |-> paths, order |-> order] @@ [NoCall EXCEPT !.tool = "read_multiple_files"]

InitTools ==
    /\ fs \in InitialFilesystems
    /\ allowedDirectories = AllowedDirectoriesOf({Abs(<<"b">>)})
    /\ result = Success(<<>>)
    /\ call = NoCall
    /\ touched = {}
    /\ ncalls = 0
    /\ process = "serving"
    /\ inflight = <<>>

ReadMultipleFilesCall ==
    \E paths \in PathLists :
        \E order \in Orders(Len(paths)) :
            Handle(BatchCall(paths, order),
                   read_multiple_files(fs, allowedDirectories, paths, order))

ListAllowedDirectoriesCall ==
    Handle([NoCall EXCEPT !.tool = "list_allowed_directories"],
           list_allowed_directories(fs, allowedDirectories))

UnknownToolCall ==
    \E name \in UnknownNames :
        Handle([NoCall EXCEPT !.tool = "unknown", !.content = name],
               unknown_tool(fs, name))

InvalidArgumentsCall ==
    \E name \in ToolNames \ {"list_allowed_directories"} :
        Handle([NoCall EXCEPT !.tool = "invalid", !.content = name],
               invalid_arguments(fs, name))

\* move_file, copy_file and copy_directory to the other destinations
OtherDestinationCall ==
    \E tool \in TwoPathTools, source \in Sources, destination \in OtherDestinations :
        Handle([NoCall EXCEPT !.tool = tool, !.path = source, !.dest = destination,
                              !.flag = (tool = "copy_directory")],
               IF tool = "move_file"
               THEN move_file(fs, allowedDirectories, source, destination)
               ELSE IF tool = "copy_file"
               THEN copy_file(fs, allowedDirectories, source, destination)
               ELSE copy_directory(fs, allowedDirectories, source, destination,
                                   TRUE, TRUE))

NextTools ==
    /\ ncalls < MaxToolCalls
    /\ \/ Next
       \/ OtherDestinationCall
       \/ ReadMultipleFilesCall
       \/ SearchFilesCall
       \/ DirectoryTreeCall
       \/ ListAllowedDirectoriesCall
       \/ UnknownToolCall
       \/ InvalidArgumentsCall

SpecTools == InitTools /\ [][NextTools]_vars

(***************************************************************************)
(* validatePath on its own: one application to a requested path, under the *)
(* root /b, on the filesystems above.                                      *)
(***************************************************************************)
ValidatedPaths ==
    Paths \cup
    { Abs(<<"b", "q">>), Abs(<<"b", "ld", "q">>), Abs(<<"b", "d", "q">>),
      Abs(<<"b", "d", "k">>), Abs(<<"b", "l", "q">>), Abs(<<"b", "B", "q">>),
      Abs(<<"b", "build", "x">>), Abs(<<"bc", "q">>), Abs(<<"o", "q">>),
      Rel(<<"q">>), Rel(<<"~", "q">>) }

InitValidate ==
    /\ fs \in InitialFilesystems \cup WalkFilesystems
    /\ allowedDirectories = AllowedDirectoriesOf({Abs(<<"b">>)})
    /\ result = Success(<<>>)
    /\ call = NoCall
    /\ touched = {}
    /\ ncalls = 0
    /\ process = "serving"
    /\ inflight = <<>>

\* the value validatePath returns, or the error it throws
Validated(valid) ==
    IF valid.ok THEN Success(valid.path) ELSE Error(valid.kind, <<>>)

ValidatePathCall ==
    /\ ncalls = 0
    /\ \E requestedPath \in ValidatedPaths :
          Handle([NoCall EXCEPT !.tool = "validatePath", !.path = requestedPath],
                 Outcome(fs, Validated(validatePath(fs, allowedDirectories, requestedPath)),
                         {}))

NextValidate == ValidatePathCall

SpecValidate == InitValidate /\ [][NextValidate]_vars

(***************************************************************************)
(* Overlapping edit_file calls on the file /b/f.  The request handler is   *)
(* an async function: a call runs until an await and resumes when the      *)
(* awaited operation is done, and other calls run in between.  A call in   *)
(* flight is at "validate" (validatePath, index.ts:601), at "read" (the    *)
(* fs.readFile of line 288), at "write" (the fs.writeFile of line 354) or  *)
(* "done"; what it computes between two awaits is one step.                *)
(***************************************************************************)
MaxFlights == 2

OverlapTexts == { <<"a">>, <<"a", "b">>, <<"a", LF, "b">>, <<"b", "a">> }
OverlapEdits ==
    { << [oldText |-> <<"a">>, newText |-> <<"c">>] >>,
      << [oldText |-> <<"b">>, newText |-> <<"d">>] >>,
      << [oldText |-> <<"a">>, newText |-> <<"a", "a">>] >>,
      << [oldText |-> <<"z">>, newText |-> <<"c">>] >>,
      << [oldText |-> <<"a">>, newText |-> <<"b">>],
         [oldText |-> <<"b">>, newText |-> <<"d">>] >> }

Flight(edits) ==
    [pc |-> "validate", edits |-> edits, validPath |-> <<>>, content |-> <<>>,
     modifiedContent |-> <<>>, result |-> Success(<<>>)]

InitOverlap ==
    /\ fs \in {EditFilesystem(content) : content \in OverlapTexts}
    /\ allowedDirectories = AllowedDirectoriesOf({Abs(<<"b">>)})
    /\ result = Success(<<>>)
    /\ call \in {[NoCall EXCEPT !.pre = EditFilesystem(content)] : content \in OverlapTexts}
    /\ call.pre = fs
    /\ touched = {}
    /\ ncalls = 0
    /\ process = "serving"
    /\ inflight = <<>>

\* index.ts:545-600: a request arrives and its handler runs up to the first await
Arrive ==
    /\ process = "serving"
    /\ Len(inflight) < MaxFlights
    /\ \E edits \in OverlapEdits : inflight' = Append(inflight, Flight(edits))
    /\ ncalls' = ncalls + 1
    /\ UNCHANGED <<fs, allowedDirectories, result, call, touched, process>>

\* the call returns: index.ts:603-605, or the catch of 849-855
Return(i, flight, res) ==
    /\ inflight' = [inflight EXCEPT ![i] = [flight EXCEPT !.pc = "done", !.result = res]]
    /\ result' = res

\* index.ts:601: validatePath resolves or throws
ValidateStep ==
    \E i \in 1..Len(inflight) :
        /\ inflight[i].pc = "validate"
        /\ \E validPath \in {validatePath(fs, allowedDirectories, EditedFile)} :
              IF validPath.ok
              THEN /\ inflight' = [inflight EXCEPT ![i] = [@ EXCEPT !.pc = "read",
                                                            !.validPath = validPath.path]]
                   /\ UNCHANGED result
              ELSE Return(i, inflight[i], Error(validPath.kind, <<>>))
        /\ UNCHANGED <<fs, allowedDirectories, call, touched, ncalls, process>>

\* index.ts:288-346: the read completes; the edits are applied to what was
\* read and the diff is made, up to the await of the write
ReadStep ==
    \E i \in 1..Len(inflight) :
        /\ inflight[i].pc = "read"
        /\ \E read \in {ReadFile(fs, inflight[i].validPath)} :
              IF ~read.ok THEN Return(i, inflight[i], Error("IOError", <<>>))
              ELSE \E applied \in {ApplyEdits(read.val, inflight[i].edits)} :
                      IF ~applied.ok
                      THEN Return(i, inflight[i],
                                  Error("EditNotFound",
                                        inflight[i].edits[applied.failed].oldText))
                      ELSE /\ inflight' =
                                [inflight EXCEPT ![i] =
                                    [@ EXCEPT !.pc = "write",
                                              !.content = normalizeLineEndings(read.val),
                                              !.modifiedContent = applied.content]]
                           /\ UNCHANGED result
        /\ touched' = touched \cup {inflight[i].validPath}
        /\ UNCHANGED <<fs, allowedDirectories, call, ncalls, process>>

\* index.ts:353-357 and 603-605: the write completes and the call returns the diff
WriteStep ==
    \E i \in 1..Len(inflight) :
        /\ inflight[i].pc = "write"
        /\ \E written \in {WriteFile(fs, inflight[i].validPath,
                                     inflight[i].modifiedContent)} :
              /\ fs' = written.fs
              /\ IF ~written.ok THEN Return(i, inflight[i], Error("IOError", <<>>))
                 ELSE Return(i, inflight[i],
                             Success([original |-> inflight[i].content,
                                      modified |-> inflight[i].modifiedContent]))
        /\ UNCHANGED <<allowedDirectories, call, touched, ncalls, process>>

NextOverlap == Arrive \/ ValidateStep \/ ReadStep \/ WriteStep

SpecOverlap == InitOverlap /\ [][NextOverlap]_vars

(***************************************************************************)
(* What the claims speak of.                                               *)
(***************************************************************************)

\* path is an allowed root or below one, by segments
InsideSandbox(path) == \E dir \in allowedDirectories : IsPrefix(dir, path)

\* path is below an allowed root, by segments
StrictlyInside(path) == \E dir \in allowedDirectories : IsPrefix(dir, path) /\ dir # path

Called == call.tool # "none"

\* the literal absolute path of the first path argument of the last call
CallAbsolute == AbsolutePath(call.path)

\* the last call's first path argument is a symbolic link whose real target
\* exists outside every allowed root
EscapingLink ==
    /\ CallAbsolute \in DOMAIN call.pre
    /\ call.pre[CallAbsolute].kind = "link"
    /\ Realpath(call.pre, CallAbsolute).ok
    /\ ~InsideSandbox(Realpath(call.pre, CallAbsolute).path)

\* C1: no location outside the allowed roots has been created, changed,
\* renamed, deleted or had its content or metadata returned
C1_Confinement == \A path \in touched : InsideSandbox(path)

\* C2: a call on a symbolic link that lies inside an allowed root and
\* resolves outside every allowed root fails with an access-denied error
C2_EscapingLinkDenied ==
    (Called /\ StrictlyInside(CallAbsolute) /\ EscapingLink)
        => (result.isError /\ result.kind = "AccessDenied")

\* C3: a call on a path outside every allowed root fails with AccessDenied,
\* also when the path extends a root's string without a separator
C3_OutsideDenied ==
    (Called /\ ~InsideSandbox(CallAbsolute))
        => (result.isError /\ result.kind = "AccessDenied")

\* C4: validation succeeds for every path strictly inside an allowed root,
\* existing or not, also under a root configured through a symbolic link
C4_InsideValidates ==
    (Called /\ StrictlyInside(CallAbsolute))
        => validatePath(call.pre, allowedDirectories, call.path).ok

\* the destination of the last call exists before it
DestinationExists == Realpath(call.pre, AbsolutePath(call.dest)).ok

\* C5: copy_file, copy_directory and move_file return an error and change
\* nothing when the destination exists
C5_NoOverwrite ==
    (call.tool \in TwoPathTools
        /\ ValidateBoth(call.pre, allowedDirectories, call.path, call.dest).ok
        /\ DestinationExists)
        => (result.isError /\ fs = call.pre)

\* the validated path of the last call's first path argument, and the
\* entry delete_file acts on
CallValid == validatePath(call.pre, allowedDirectories, call.path)
DeleteTarget == EntryPath(call.pre, CallValid.path).path

\* the last call is a delete_file whose path validated and exists
DeleteApplies ==
    /\ call.tool = "delete_file"
    /\ CallValid.ok
    /\ Access(call.pre, CallValid.path)
    /\ DeleteTarget \in DOMAIN call.pre

\* C6: delete_file on a directory with entries fails with NotEmpty and
\* changes nothing without force, and removes the directory with all its
\* descendants with force; on an empty directory, a file or a link to a
\* file it removes exactly that entry
C6_DeleteFile ==
    DeleteApplies =>
        LET entry == call.pre[DeleteTarget]
            below == Subtree(call.pre, DeleteTarget)
        IN  /\ (entry.kind = "dir" /\ below # {DeleteTarget} /\ ~call.flag)
                => (result.isError /\ result.kind = "NotEmpty" /\ fs = call.pre)
            /\ (entry.kind = "dir" /\ below # {DeleteTarget} /\ call.flag)
                => (~result.isError /\ fs = Remove(call.pre, below)
                        /\ \A q \in DOMAIN fs : ~IsPrefix(DeleteTarget, q))
            /\ (\/ entry.kind = "dir" /\ below = {DeleteTarget}
                \/ entry.kind = "file"
                \/ entry.kind = "link" /\ Stat(call.pre, CallValid.path).val.kind = "file")
                => (~result.isError /\ fs = Remove(call.pre, {DeleteTarget}))

\* a forced delete_file of a directory with entries has succeeded
C6_Witness ==
    /\ DeleteApplies
    /\ call.pre[DeleteTarget].kind = "dir"
    /\ Cardinality(Subtree(call.pre, DeleteTarget)) >= 2
    /\ call.flag
    /\ ~result.isError

(***************************************************************************)
(* The claims about edit_file.                                             *)
(***************************************************************************)
EditCalled == call.tool = "edit_file" /\ CallValid.ok

\* the content of the edited file before and after the last call
ContentBefore == ReadFile(call.pre, CallValid.path).val
ContentAfter == ReadFile(fs, CallValid.path).val

RECURSIVE BufferAfter(_, _, _)
\* the buffer after the first k edits, each applied to the output of the
\* one before it
BufferAfter(content, edits, k) ==
    IF k = 0 THEN normalizeLineEndings(content)
    ELSE ApplyEdit(BufferAfter(content, edits, k - 1), edits[k]).content

\* edit k is the first of the list that matches by neither strategy
FirstUnmatched(content, edits, k) ==
    /\ \A j \in 1..(k - 1) : ApplyEdit(BufferAfter(content, edits, j - 1), edits[j]).ok
    /\ ~ApplyEdit(BufferAfter(content, edits, k - 1), edits[k]).ok

\* C7: with dryRun the file is never changed; without it, when every edit
\* matches, the file holds exactly the buffer the returned diff was made of
C7_DryRun ==
    (EditCalled /\ ReadFile(call.pre, CallValid.path).ok) =>
        /\ call.flag => fs = call.pre
        /\ (~call.flag /\ ~result.isError) =>
              /\ ContentAfter = result.text.modified
              /\ fs = Put(call.pre, Realpath(call.pre, CallValid.path).path,
                          File(result.text.modified))
        /\ (\A k \in 1..Len(call.edits) : ~FirstUnmatched(ContentBefore, call.edits, k))
              => ~result.isError

\* a persisted edit_file call changed the file
C7_Witness ==
    /\ EditCalled /\ ~call.flag /\ ~result.isError
    /\ ContentAfter # ContentBefore
    /\ ContentAfter = result.text.modified

\* C8: when edit k is the first to match by neither strategy, the call fails
\* with an error naming edit k's search text, no later edit is tried and
\* the file is unchanged, with and without dryRun
C8_EditNotFound ==
    (EditCalled /\ ReadFile(call.pre, CallValid.path).ok) =>
        \A k \in 1..Len(call.edits) :
            FirstUnmatched(ContentBefore, call.edits, k) =>
                /\ result.isError
                /\ result.kind = "EditNotFound"
                /\ result.text = call.edits[k].oldText
                /\ ApplyEdits(ContentBefore, call.edits).attempted = k
                /\ fs = call.pre

\* the second of two edits did not match after the first had changed the
\* buffer, and the call was not a dry run
C8_Witness ==
    /\ EditCalled /\ ~call.flag /\ Len(call.edits) = 2
    /\ FirstUnmatched(ContentBefore, call.edits, 2)
    /\ BufferAfter(ContentBefore, call.edits, 1) # normalizeLineEndings(ContentBefore)
    /\ result.isError /\ fs = call.pre

\* the last call is the second of two persisted one-edit calls
SecondCall == call.tool = "edit_file" /\ call.prev # <<>>

\* the outcome of the two edits A (of the call before) and B (of the last
\* call) given as one list to one call on the content before A
InOneCall ==
    edit_file(call.prev.pre, allowedDirectories, call.path,
              <<call.prev.edits[1], call.edits[1]>>, FALSE)

\* one call with [A, B] and the two calls [A], [B] fail alike and, when
\* they succeed, leave the same content
SameAsInOneCall ==
    /\ InOneCall.result.isError = result.isError
    /\ ~result.isError => InOneCall.fs = fs

\* a failed one-edit call [A] means a failed call [A, B], for every B
FailsAlike ==
    (call.tool = "edit_file" /\ Len(call.edits) = 1 /\ result.isError) =>
        \A edit \in SecondEdits :
            edit_file(call.pre, allowedDirectories, call.path,
                      <<call.edits[1], edit>>, FALSE).result.isError

\* C9, as claimed: for every content and every edits A and B, one call with
\* [A, B] has the outcome of the call [A] followed by the call [B]
C9_Compose == FailsAlike /\ (SecondCall => SameAsInOneCall)

\* C10: a one-edit call whose search text occurs verbatim in the buffer
\* leaves (text before the first occurrence) + (the replacement, literally)
\* + (text after it), the text before and after being that of the file
\* before the call, byte for byte
C10_ExactReplace ==
    (EditCalled /\ ~call.flag /\ Len(call.edits) = 1
        /\ ReadFile(call.pre, CallValid.path).ok
        /\ ExactMatch(normalizeLineEndings(ContentBefore), call.edits[1])) =>
        LET buffer        == normalizeLineEndings(ContentBefore)
            normalizedOld == normalizeLineEndings(call.edits[1].oldText)
            normalizedNew == normalizeLineEndings(call.edits[1].newText)
            i             == IndexOf(buffer, normalizedOld)
            before        == SubSeq(buffer, 1, i)
            after         == SubSeq(buffer, i + Len(normalizedOld) + 1, Len(buffer))
        IN  /\ ~result.isError
            /\ ContentAfter = before \o normalizedNew \o after
            /\ StartsWith(ContentBefore, before)
            /\ Len(after) <= Len(ContentBefore)
            /\ SubSeq(ContentBefore, Len(ContentBefore) - Len(after) + 1,
                      Len(ContentBefore)) = after

(***************************************************************************)
(* The claims about the whitespace-tolerant strategy.                      *)
(***************************************************************************)

\* the lines of the buffer, of the search text and of the replacement of
\* the last call's only edit, and the file's lines after the call
BufferLinesOf == SplitLines(normalizeLineEndings(ContentBefore))
OldLinesOf == SplitLines(normalizeLineEndings(call.edits[1].oldText))
NewLinesOf == SplitLines(normalizeLineEndings(call.edits[1].newText))
ResultLines == SplitLines(ContentAfter)

\* the 0-based windows of buffer lines equal to the search lines after
\* trimming
TrimmedWindows(buffer, old) ==
    {i \in 0..(Len(buffer) - Len(old)) :
        \A j \in 1..Len(old) : Trim(buffer[i + j]) = Trim(old[j])}

Lowest(windows) == CHOOSE i \in windows : \A k \in windows : i <= k

\* the last call is a one-edit edit_file whose search text is not in the
\* buffer verbatim but equals a block of buffer lines after trimming
FuzzyApplies ==
    /\ call.tool = "edit_file" /\ Len(call.edits) = 1 /\ ~call.flag
    /\ The({ /\ valid.ok
             /\ ReadFile(call.pre, valid.path).ok
             /\ ~ExactMatch(normalizeLineEndings(ReadFile(call.pre, valid.path).val),
                            call.edits[1])
             /\ TrimmedWindows(
                    SplitLines(normalizeLineEndings(ReadFile(call.pre, valid.path).val)),
                    OldLinesOf) # {}
             : valid \in {CallValid} })

\* the lines outside the window w are kept, and the window holds as many
\* lines as the replacement
FuzzyFrame(buffer, old, new, w, after) ==
    /\ ~result.isError
    /\ Len(after) = Len(buffer) - Len(old) + Len(new)
    /\ \A k \in 1..w : after[k] = buffer[k]
    /\ \A k \in 1..(Len(buffer) - w - Len(old)) :
          after[w + Len(new) + k] = buffer[w + Len(old) + k]

\* every replacement line that has a buffer line at its position starts
\* with that buffer line's indentation and holds the replacement's text
IndentKept(buffer, old, new, w, after) ==
    \A j \in 1..Len(new) :
        j <= Len(old) =>
            /\ StartsWith(after[w + j], LeadingWhitespace(buffer[w + j]))
            /\ TrimStart(after[w + j]) = TrimStart(new[j])

\* the first replacement line carries the indentation of the window's first
\* buffer line; a later line j carries that same indentation plus the
\* excess of its own indentation over that of search line j when both are
\* indented, and is written unmodified otherwise
IndentRelative(buffer, old, new, w, after) ==
    The({ \A j \in 1..Len(new) :
              after[w + j] =
                  IF j = 1 THEN indent \o TrimStart(new[1])
                  ELSE IF j <= Len(old)
                          /\ LeadingWhitespace(old[j]) # <<>>
                          /\ LeadingWhitespace(new[j]) # <<>>
                  THEN indent
                         \o Repeat(SP, Max(0, Len(LeadingWhitespace(new[j]))
                                              - Len(LeadingWhitespace(old[j]))))
                         \o TrimStart(new[j])
                  ELSE new[j]
          : indent \in {LeadingWhitespace(buffer[w + 1])} })

\* C11, as claimed: the edit matches at the lowest window and every
\* replacement line is written with the indentation the buffer had at that
\* position, also when the search lines carry no leading whitespace
C11_IndentPreserved ==
    FuzzyApplies =>
        The({ The({ /\ FuzzyFrame(buffer, old, new, w, after)
                    /\ IndentKept(buffer, old, new, w, after)
                    : w \in {Lowest(TrimmedWindows(buffer, old))} })
              : buffer \in {BufferLinesOf}, old \in {OldLinesOf},
                new \in {NewLinesOf}, after \in {ResultLines} })

\* C11, amended: the edit matches at the lowest window; the first
\* replacement line gets the indentation of the window's first buffer line;
\* a later line gets that indentation plus its relative indentation when
\* it and its search line are both indented, and is unmodified otherwise
C11_FuzzyIndent ==
    FuzzyApplies =>
        The({ The({ /\ FuzzyFrame(buffer, old, new, w, after)
                    /\ IndentRelative(buffer, old, new, w, after)
                    : w \in {Lowest(TrimmedWindows(buffer, old))} })
              : buffer \in {BufferLinesOf}, old \in {OldLinesOf},
                new \in {NewLinesOf}, after \in {ResultLines} })

\* a two-line search text matched an indented block below the buffer's
\* first line, the second search and replacement lines both indented
C11_Witness ==
    /\ FuzzyApplies /\ ~result.isError
    /\ Len(OldLinesOf) = 2 /\ Len(NewLinesOf) = 2
    /\ Lowest(TrimmedWindows(BufferLinesOf, OldLinesOf)) = 1
    /\ LeadingWhitespace(BufferLinesOf[2]) # <<>>
    /\ LeadingWhitespace(OldLinesOf[2]) # <<>>
    /\ LeadingWhitespace(NewLinesOf[2]) # <<>>

(***************************************************************************)
(* The claims about search_files.                                          *)
(***************************************************************************)

\* the last call is a search_files that returned a list (possibly empty)
Searched == call.tool = "search_files" /\ ~result.isError

\* the paths the search returned
SearchResults == IF result.text = <<"NoMatches">> THEN {} ELSE {result.text[k] : k \in 1..Len(result.text)}

\* the path has a segment of that name below the search root
HasSegment(path, name) ==
    \E k \in (Len(CallValid.path) + 1)..Len(path) : path[k] = name

\* C12: with the exclude pattern "build", search_files returns no path
\* with a segment named build below the root, the build directory itself
\* included, and lists no directory named build
C12_ExcludeBuild ==
    (Searched /\ "build" \in call.excludePatterns) =>
        /\ \A path \in SearchResults : ~HasSegment(path, "build")
        /\ \A dir \in touched : ~HasSegment(dir, "build")

(***************************************************************************)
(* The claim about startup.                                                *)
(***************************************************************************)

\* C13: when a directory of the command line is missing or is no
\* directory the process exits before it serves: in a serving process that
\* has handled no call, and before the first call handled, every allowed
\* root is an existing directory
C13_StartupGate ==
    /\ (process = "serving" /\ ncalls = 0) => DirectoriesExist(fs, allowedDirectories)
    /\ (process = "serving" /\ ncalls = 1) => DirectoriesExist(call.pre, allowedDirectories)
    /\ ncalls > 0 => process = "serving"

(***************************************************************************)
(* Validation before action, over every tool.                              *)
(***************************************************************************)
OnePathTools ==
    { "read_file", "write_file", "edit_file", "create_directory", "list_directory",
      "directory_tree", "search_files", "get_file_info", "delete_file" }

\* the path arguments of a call
PathArguments(c) ==
    IF c.tool \in OnePathTools THEN {c.path}
    ELSE IF c.tool \in TwoPathTools THEN {c.path, c.dest}
    ELSE IF c.tool = "read_multiple_files" THEN {c.paths[i] : i \in 1..Len(c.paths)}
    ELSE {}

Rejected(c) ==
    {p \in PathArguments(c) : ~validatePath(c.pre, allowedDirectories, p).ok}

\* the call failed, changed nothing and (when it is the only call so far)
\* read nothing
FailedUntouched == result.isError /\ fs = call.pre /\ (ncalls = 1 => touched = {})

\* C14 as stated: whenever some path argument of a tool call fails validation,
\* the call returns an error, the filesystem is unchanged and nothing was read.
C14_AllValidatedFirst ==
    The({ rejected # {} => FailedUntouched : rejected \in {Rejected(call)} })

\* the paths validatePath returned for the arguments of the call that passed
Accepted(c) ==
    { v.path : v \in { w \in { validatePath(c.pre, allowedDirectories, p)
                                : p \in PathArguments(c) } : w.ok } }

\* the locations that reading the accepted paths reads
ReadOfAccepted(c) == UNION { ReadFile(c.pre, path).at : path \in Accepted(c) }

\* C14: for every tool but read_multiple_files, a call with a path argument that
\* fails validation returns an error, changes nothing and reads nothing; a
\* read_multiple_files call changes nothing, reports an error item for each path
\* that fails validation and reads only paths that passed it.
C14_ValidatedFirst ==
    IF call.tool = "read_multiple_files"
    THEN /\ fs = call.pre
         /\ ~result.isError
         /\ \A i \in 1..Len(call.paths) :
                ~validatePath(call.pre, allowedDirectories, call.paths[i]).ok
                    => result.text[i].isError
         /\ ncalls = 1 => touched = ReadOfAccepted(call)
    ELSE The({ rejected # {} => FailedUntouched : rejected \in {Rejected(call)} })

\* a two-path tool whose source passed and whose destination failed, and a
\* batch read with a path that failed
C14_Witness ==
    /\ call.tool = "move_file"
    /\ validatePath(call.pre, allowedDirectories, call.path).ok
    /\ ~validatePath(call.pre, allowedDirectories, call.dest).ok
    /\ FailedUntouched
    /\ ncalls = 1

\* a batch read of a file and of a path that fails validation
C14_BatchWitness ==
    /\ call.tool = "read_multiple_files"
    /\ Rejected(call) # {}
    /\ touched # {}
    /\ ncalls = 1

(***************************************************************************)
(* Error wrapping.                                                         *)
(***************************************************************************)
PathTools == OnePathTools \cup TwoPathTools

\* the fault of the last call, "none" when no fault is known of it: a tool
\* name the switch does not know, arguments that do not fit the schema, a
\* first path argument that fails validation, an edit that matches nothing,
\* a read of something that is no file
FaultOf(c) ==
    IF c.tool = "unknown" THEN "UnknownTool"
    ELSE IF c.tool = "invalid" THEN "InvalidArguments"
    ELSE IF c.tool \notin PathTools THEN "none"
    ELSE The({ IF ~valid.ok THEN valid.kind
               ELSE IF c.tool \notin {"read_file", "edit_file"} THEN "none"
               ELSE The({ IF ~read.ok THEN "IOError"
                          ELSE IF c.tool = "edit_file" /\ ~ApplyEdits(read.val, c.edits).ok
                          THEN "EditNotFound"
                          ELSE "none"
                          : read \in {ReadFile(c.pre, valid.path)} })
               : valid \in {validatePath(c.pre, allowedDirectories, c.path)} })

\* C15: every tool call, whatever its name and arguments, ends with a result and
\* a serving process; the result of a failed call carries the error flag and the
\* message of the fault, and a result without the flag carries no error message.
C15_ErrorsWrapped ==
    Called =>
        /\ process = "serving"
        /\ result.isError \in BOOLEAN
        /\ result.isError <=> result.kind # "ok"
        /\ The({ fault # "none" => result.isError /\ result.kind = fault
                 : fault \in {FaultOf(call)} })

\* a call of an unknown tool was answered with an error result
C15_Witness ==
    /\ call.tool = "unknown"
    /\ result = Error("UnknownTool", <<>>)
    /\ process = "serving"
    /\ fs = call.pre

(***************************************************************************)
(* read_multiple_files.                                                    *)
(***************************************************************************)
BatchCalled == call.tool = "read_multiple_files"

\* what a read_file call of the same path on the same filesystem returns
AloneResult(c, i) == read_file(c.pre, allowedDirectories, c.paths[i]).result

\* item i of the result is the outcome of path i on its own
ItemIsolated(c, res, i) ==
    The({ /\ res.text[i].path = c.paths[i]
          /\ res.text[i].isError = alone.isError
          /\ res.text[i].kind = alone.kind
          /\ res.text[i].text = alone.text
          : alone \in {AloneResult(c, i)} })

\* C16: a read_multiple_files call succeeds without the error flag and returns
\* one item per requested path, in request order; each item is what its path
\* yields on its own (the content, or the error of that path only), whatever
\* the order in which the reads complete; the filesystem is unchanged.
C16_BatchIsolated ==
    BatchCalled =>
        /\ ~result.isError
        /\ Len(result.text) = Len(call.paths)
        /\ \A i \in 1..Len(call.paths) : ItemIsolated(call, result, i)
        /\ fs = call.pre

\* a batch whose second read completed first, with one item failed and the
\* other read
C16_Witness ==
    /\ BatchCalled
    /\ call.order = <<2, 1>>
    /\ result.text[1].isError # result.text[2].isError

(***************************************************************************)
(* create_directory.                                                       *)
(***************************************************************************)

\* every ancestor of path that exists, from the root down, is a directory,
\* and path itself is missing or a directory
PlainBelowRoot(f, path) ==
    /\ StrictlyInside(path)
    /\ \A k \in 1..Len(path) :
           The({ (prefix \in DOMAIN f => f[prefix].kind = "dir")
                 : prefix \in {SubSeq(path, 1, k)} })

IsDirectory(f, path) == path \in DOMAIN f /\ f[path].kind = "dir"

\* C17: create_directory of a path below the root whose existing ancestors are
\* directories succeeds; afterwards the directory and all its ancestors exist,
\* nothing else has changed, and a directory that existed already is left as it was.
C17_CreateNested ==
    (call.tool = "create_directory" /\ PlainBelowRoot(call.pre, CallAbsolute)) =>
        /\ ~result.isError
        /\ \A k \in 1..Len(CallAbsolute) : IsDirectory(fs, SubSeq(CallAbsolute, 1, k))
        /\ \A path \in DOMAIN call.pre : path \in DOMAIN fs /\ fs[path] = call.pre[path]
        /\ IsDirectory(call.pre, CallAbsolute) => fs = call.pre

(***************************************************************************)
(* The error kinds of validatePath.                                        *)
(***************************************************************************)

\* validatePath was applied to a path that passes the check of the requested
\* path and whose real path cannot be resolved
Unresolved ==
    /\ call.tool = "validatePath"
    /\ IsAllowed(allowedDirectories, normalizePath(CallAbsolute))
    /\ ~Realpath(call.pre, CallAbsolute).ok

\* C18: when the real path cannot be resolved, validatePath returns the absolute
\* path if the parent resolves inside an allowed root, fails with AccessDenied if
\* the parent resolves outside every root, and fails with ParentMissing only if
\* the parent cannot be resolved.
C18_ErrorKinds ==
    Unresolved =>
        The({ IF ~realParentPath.ok
              THEN result.isError /\ result.kind = "ParentMissing"
              ELSE IF IsAllowed(allowedDirectories, normalizePath(realParentPath.path))
              THEN ~result.isError /\ result.text = CallAbsolute
              ELSE result.isError /\ result.kind = "AccessDenied"
              : realParentPath \in {Realpath(call.pre, Dirname(CallAbsolute))} })

(***************************************************************************)
(* Validation of the descendants in the recursive tools.                   *)
(***************************************************************************)
RECURSIVE TreePaths(_, _)
\* the paths of the nodes of a tree of directory_tree built at base
TreePaths(base, tree) ==
    UNION { {Append(base, tree[k].name)}
                \cup TreePaths(Append(base, tree[k].name), tree[k].children)
            : k \in 1..Len(tree) }

\* the entries the last call created
Created == DOMAIN fs \ DOMAIN call.pre

\* C19: every entry that search_files returns, every node that directory_tree
\* reports and every entry that copy_directory writes was passed to validatePath
\* by that call.
C19_DescendantsValidated ==
    /\ Searched => SearchResults \subseteq call.validated
    /\ (call.tool = "directory_tree" /\ ~result.isError)
           => TreePaths(CallAbsolute, result.text) \subseteq call.validated
    /\ (call.tool = "copy_directory" /\ ~result.isError)
           => Created \subseteq call.validated

(***************************************************************************)
(* The result set of search_files.                                         *)
(***************************************************************************)

\* the entries below the search root, as the paths the search forms for
\* them: the root's path extended by names, through directories only
EntriesBelow(f, rootPath) ==
    The({ { rootPath \o SubSeq(real, Len(realRoot) + 1, Len(real)) :
              real \in { q \in DOMAIN f :
                           /\ IsPrefix(realRoot, q) /\ q # realRoot
                           /\ \A k \in Len(realRoot)..(Len(q) - 1) :
                                  f[SubSeq(q, 1, k)].kind = "dir" } }
          : realRoot \in {Realpath(f, rootPath).path} })

\* the entry and each of its ancestors below the root pass validation and
\* are not excluded, and the name of the entry contains the pattern
Qualifies(c, rootPath, entry) ==
    /\ \A k \in (Len(rootPath) + 1)..Len(entry) :
           The({ /\ validatePath(c.pre, allowedDirectories, Abs(path)).ok
                 /\ ~\E pattern \in c.excludePatterns :
                        GlobMatchesOwnName(RelativePath(rootPath, path), pattern)
                 : path \in {SubSeq(entry, 1, k)} })
    /\ NameMatches(Basename(entry), c.pattern)

\* C20: a search_files call on a root that validates and can be listed
\* succeeds and returns exactly the entries below the root that pass
\* validation and are not excluded, with all their ancestors below the root,
\* and whose name contains the pattern case-insensitively.
C20_SearchResultSet ==
    (call.tool = "search_files" /\ CallValid.ok /\ Readdir(call.pre, CallValid.path).ok) =>
        /\ ~result.isError
        /\ The({ SearchResults = { entry \in EntriesBelow(call.pre, rootPath) :
                                     Qualifies(call, rootPath, entry) }
                 : rootPath \in {CallValid.path} })

(***************************************************************************)
(* Termination of the recursive walks.                                     *)
(***************************************************************************)

\* the entries of the source tree of a copy, relative to the source, as
\* they were before the call
SourceSuffixes(f, src) ==
    { SubSeq(q, Len(src) + 1, Len(q)) : q \in { r \in DOMAIN f : IsPrefix(src, r) } }

\* every entry the copy created is the copy of an entry the source tree had
\* before the call
CopiesOfSource(c) ==
    The({ Created = {} \/
          The({ \A path \in Created :
                    /\ IsPrefix(dest, path)
                    /\ SubSeq(path, Len(dest) + 1, Len(path)) \in suffixes
                : suffixes \in {SourceSuffixes(c.pre, Realpath(c.pre, valid.source).path)},
                  dest \in {valid.dest} })
          : valid \in {ValidateBoth(c.pre, allowedDirectories, c.path, c.dest)} })

\* C21: a recursive walk visits only what the tree held before the call, each
\* entry once: search_files returns no path twice, every node directory_tree
\* reports is an entry of the tree, and copy_directory creates only copies of the
\* entries the source had before the call, never copies of what it is creating.
C21_WalksBounded ==
    /\ Searched => Cardinality(SearchResults) = Len(SearchText(result.text)) - 
                       (IF result.text = <<"NoMatches">> THEN 1 ELSE 0)
    /\ (call.tool = "directory_tree" /\ ~result.isError) =>
           \A path \in TreePaths(CallValid.path, result.text) :
               The({ e.ok /\ e.path \in DOMAIN call.pre : e \in {EntryPath(call.pre, path)} })
    /\ call.tool = "copy_directory" => CopiesOfSource(call)

(***************************************************************************)
(* The fence of the diff.                                                  *)
(***************************************************************************)
RECURSIVE LeadingRun(_, _)
\* the number of characters c the text starts with
LeadingRun(text, c) ==
    IF text # <<>> /\ Head(text) = c THEN 1 + LeadingRun(Tail(text), c) ELSE 0

RECURSIVE LongestRun(_, _)
\* the length of the longest run of the character c in the text
LongestRun(text, c) ==
    IF text = <<>> THEN 0
    ELSE The({ Max(run, LongestRun(SubSeq(text, Max(run, 1) + 1, Len(text)), c))
               : run \in {LeadingRun(text, c)} })

Formatted == call.tool = "formatDiff"

\* C22: the formatted diff opens and closes with a fence of n backticks around
\* "diff", a line feed and the diff text, where n is the least integer >= 3 such
\* that the diff text has no run of n backticks, that is max(3, L + 1) for the
\* longest run L; the diff text does not contain the fence.
C22_FenceLength ==
    Formatted =>
        The({ /\ n = Max(3, LongestRun(diff, BT) + 1)
              /\ ~Includes(diff, Repeat(BT, n))
              /\ \A m \in 3..(n - 1) : Includes(diff, Repeat(BT, m))
              /\ result.text = Repeat(BT, n) \o <<"d", "i", "f", "f", LF>> \o diff
                                  \o Repeat(BT, n) \o <<LF, LF>>
              : n \in {LeadingRun(result.text, BT)}, diff \in {call.content} })

\* a diff with a run of three backticks was given a fence of four
C22_Witness ==
    /\ Formatted
    /\ LongestRun(call.content, BT) = 3
    /\ LeadingRun(result.text, BT) = 4

(***************************************************************************)
(* Overlapping edit_file calls.                                            *)
(***************************************************************************)

\* the two calls, one after the other from the filesystem before them, both
\* succeed and leave this filesystem
AsOneAfterTheOther(f, first, second) ==
    The({ /\ ~one.result.isError
          /\ The({ ~two.result.isError /\ fs = two.fs
                   : two \in {edit_file(one.fs, allowedDirectories, EditedFile,
                                        second, FALSE)} })
          : one \in {edit_file(f, allowedDirectories, EditedFile, first, FALSE)} })

BothSucceeded ==
    /\ Len(inflight) = 2
    /\ \A i \in 1..2 : inflight[i].pc = "done" /\ ~inflight[i].result.isError

\* C23: when two overlapping edit_file calls on the same file have both returned
\* success, the file is as if the two edit lists had been applied one after the
\* other in one of the two orders.
C23_EditsNotLost ==
    BothSucceeded =>
        \/ AsOneAfterTheOther(call.pre, inflight[1].edits, inflight[2].edits)
        \/ AsOneAfterTheOther(call.pre, inflight[2].edits, inflight[1].edits)

===============================================================================
